---- MODULE Spec2Model ----
(***************************************************************************)
(* NomadAI: the deterministic orchestration core of src/server/main.py     *)
(* (the chat handler, the profile extractors, the itinerary builder) as a  *)
(* state machine.  Messages are strings and every text predicate of the    *)
(* source is computed character by character, as the source computes it.   *)
(*                                                                         *)
(* Optional values: Python's None is the empty sequence, a present value v *)
(* is <<v>>.  time_days is the exception: 0 stands for None (the source    *)
(* tests it with "not td" and "td > 0" only).                              *)
(* Not modelled: map_view, city, notes and the command payloads that carry *)
(* coordinates (they never feed back into a decision).                     *)
(***************************************************************************)
EXTENDS Integers, Sequences, FiniteSets, TLC

None == <<>>
Some(v) == <<v>>
IsNone(o) == o = <<>>
Val(o) == o[1]

(***************************************************************************)
(* Strings                                                                 *)
(***************************************************************************)
UpperAlpha == "ABCDEFGHIJKLMNOPQRSTUVWXYZ"
LowerAlpha == "abcdefghijklmnopqrstuvwxyz"
Digits == "0123456789"

Char(s, i) == SubSeq(s, i, i)

InStr(c, s) == \E i \in 1..Len(s) : Char(s, i) = c

IndexIn(c, s) == CHOOSE i \in 1..Len(s) : Char(s, i) = c

LowerChar(c) == IF InStr(c, UpperAlpha) THEN Char(LowerAlpha, IndexIn(c, UpperAlpha)) ELSE c

UpperChar(c) == IF InStr(c, LowerAlpha) THEN Char(UpperAlpha, IndexIn(c, LowerAlpha)) ELSE c

IsDigit(c) == InStr(c, Digits)

IsAlpha(c) == InStr(c, LowerAlpha) \/ InStr(c, UpperAlpha)

\* \w of the re module, on the characters the model's messages use
IsWordChar(c) == IsAlpha(c) \/ IsDigit(c) \/ c = "_"

IsSpace(c) == c = " "

RECURSIVE Lower(_)
\* str.lower()
Lower(s) == IF Len(s) = 0 THEN "" ELSE LowerChar(Char(s, 1)) \o Lower(SubSeq(s, 2, Len(s)))

RECURSIVE LStrip(_)
LStrip(s) == IF Len(s) > 0 /\ IsSpace(Char(s, 1)) THEN LStrip(SubSeq(s, 2, Len(s))) ELSE s

RECURSIVE RStrip(_)
RStrip(s) == IF Len(s) > 0 /\ IsSpace(Char(s, Len(s))) THEN RStrip(SubSeq(s, 1, Len(s) - 1)) ELSE s

\* str.strip()
Strip(s) == LStrip(RStrip(s))

\* k in m, for strings
HasSub(m, k) == \E i \in 1..(Len(m) - Len(k) + 1) : SubSeq(m, i, i + Len(k) - 1) = k

\* any(k in m for k in keys)
AnyIn(m, keys) == \E k \in keys : HasSub(m, k)

\* the literal k stands in m at position i
LitAt(m, i, k) == i >= 1 /\ i + Len(k) - 1 <= Len(m) /\ SubSeq(m, i, i + Len(k) - 1) = k

\* \b at the gap before position i (1 .. Len(m)+1)
WordBoundary(m, i) ==
    LET before == i > 1 /\ IsWordChar(Char(m, i - 1))
        after == i <= Len(m) /\ IsWordChar(Char(m, i))
    IN before # after

RECURSIVE SkipWs(_, _)
\* the position after a greedy \s* that starts at i
SkipWs(m, i) == IF i <= Len(m) /\ IsSpace(Char(m, i)) THEN SkipWs(m, i + 1) ELSE i

RECURSIVE SkipDigits(_, _)
\* the position after a greedy \d* that starts at i
SkipDigits(m, i) == IF i <= Len(m) /\ IsDigit(Char(m, i)) THEN SkipDigits(m, i + 1) ELSE i

RECURSIVE ParseInt(_)
\* int() of a string of digits
ParseInt(s) ==
    IF Len(s) = 0 THEN 0
    ELSE 10 * ParseInt(SubSeq(s, 1, Len(s) - 1)) + (IndexIn(Char(s, Len(s)), Digits) - 1)

\* \b word \b somewhere in m (re.search)
HasWord(m, w) == \E i \in 1..Len(m) : LitAt(m, i, w) /\ WordBoundary(m, i) /\ WordBoundary(m, i + Len(w))

Min(S) == CHOOSE x \in S : \A y \in S : x <= y

Max(S) == CHOOSE x \in S : \A y \in S : x >= y

(***************************************************************************)
(* Intent predicates                                                       *)
(***************************************************************************)
_looks_like_yes(message) ==
    LET m == Lower(Strip(message))
    IN m \in {"yes", "y", "yeah", "yep", "ok", "okay", "sure", "please", "yes please"} \/ HasSub(m, "yes")

_looks_like_no(message) ==
    LET m == Lower(Strip(message))
    IN m \in {"no", "n", "nope", "not now"} \/ (HasSub(m, "no") /\ HasSub(m, "not"))

_looks_like_save_day(message) ==
    AnyIn(Lower(Strip(message)), {"save day", "confirm day", "save this day", "save it", "confirm it"})

_looks_like_too_broad(message) ==
    AnyIn(Lower(Strip(message)),
          {"tell me everything", "everything", "all places", "all the places", "everything to do"})

_looks_like_exact_prices(message) ==
    LET m == Lower(Strip(message))
    IN /\ AnyIn(m, {"exact price", "exactly how much", "exact cost", "exactly", "fixed price"})
       /\ AnyIn(m, {"price", "cost", "fee", "budget", "rupees", "rs", "usd", "$", "dollar"})

_looks_like_off_topic(message) ==
    LET m == Lower(Strip(message))
    IN \/ \E w \in {"ai", "llm", "model", "ollama", "prompt", "token", "api", "openai"} : HasWord(m, w)
       \/ \E i \in 1..Len(m) :
             /\ WordBoundary(m, i)
             /\ LitAt(m, i, "fine")
             /\ LET j == SkipWs(m, i + 4) IN LitAt(m, j, "tune") /\ WordBoundary(m, j + 4)

_looks_like_change_of_mind(message) ==
    AnyIn(Lower(Strip(message)), {"never mind", "nevermind", "actually", "change of plan", "instead"})

OTHER_CITIES ==
    {"pokhara", "chitwan", "lumbini", "butwal", "biratnagar", "bharatpur", "hetauda", "dharan",
     "janakpur", "nepalgunj"}

\* a character of the token class [a-zA-Z'] of _tokenize
IsTokenChar(c) == IsAlpha(c) \/ c = "'"

\* t is one of re.findall(r"[a-zA-Z']+", text.lower()): a maximal run of token characters
_tokenize(text, t) ==
    LET m == Lower(text)
    IN \E i \in 1..Len(m) :
          /\ LitAt(m, i, t)
          /\ \A j \in 1..Len(t) : IsTokenChar(Char(t, j))
          /\ (i = 1 \/ ~IsTokenChar(Char(m, i - 1)))
          /\ (i + Len(t) > Len(m) \/ ~IsTokenChar(Char(m, i + Len(t))))

_is_outside_kathmandu(message) == \E c \in OTHER_CITIES : _tokenize(message, c)

_looks_like_place_name(message) ==
    LET m == Strip(message)
    IN IF m = "" THEN None
       ELSE IF LitAt(Lower(m), 1, "tell me about ") THEN Some(Strip(SubSeq(m, 14, Len(m))))
       ELSE Some(m)

RECURSIVE StripTrailingPunct(_)
\* re.sub(r"[\.!\?]+$", "", area)
StripTrailingPunct(s) ==
    IF Len(s) > 0 /\ Char(s, Len(s)) \in {".", "!", "?"}
    THEN StripTrailingPunct(SubSeq(s, 1, Len(s) - 1))
    ELSE s

\* the position of group (.+) when one of the four patterns matches at the start of m, else 0
StayAreaStart(m) ==
    LET \* \s+(?:in|near)\s+(.+)$ from position i
        AfterStaying(i) ==
            IF i <= Len(m) /\ IsSpace(Char(m, i))
            THEN LET j == SkipWs(m, i)
                     k == IF LitAt(m, j, "in") THEN j + 2 ELSE IF LitAt(m, j, "near") THEN j + 4 ELSE 0
                 IN IF k > 0 /\ k <= Len(m) /\ IsSpace(Char(m, k)) /\ SkipWs(m, k) <= Len(m)
                    THEN SkipWs(m, k)
                    ELSE 0
            ELSE 0
        \* \s+staying ... from position i
        Staying(i) ==
            IF i <= Len(m) /\ IsSpace(Char(m, i)) /\ LitAt(m, SkipWs(m, i), "staying")
            THEN AfterStaying(SkipWs(m, i) + 7)
            ELSE 0
        p1 == IF LitAt(m, 1, "i")
              THEN LET a == SkipWs(m, 2)
                       b == IF LitAt(m, a, "'") THEN a + 1 ELSE a
                   IN IF LitAt(m, b, "m") THEN Staying(b + 1) ELSE 0
              ELSE 0
        p2 == IF LitAt(m, 1, "i") /\ 2 <= Len(m) /\ IsSpace(Char(m, 2)) /\ LitAt(m, SkipWs(m, 2), "am")
              THEN Staying(SkipWs(m, 2) + 2)
              ELSE 0
        p3 == IF LitAt(m, 1, "staying") THEN AfterStaying(8) ELSE 0
        p4 == IF LitAt(m, 1, "my") /\ 3 <= Len(m) /\ IsSpace(Char(m, 3)) /\ LitAt(m, SkipWs(m, 3), "hotel")
              THEN LET h == SkipWs(m, 3) + 5
                   IN IF h <= Len(m) /\ IsSpace(Char(m, h)) /\ LitAt(m, SkipWs(m, h), "is")
                      THEN AfterStaying(SkipWs(m, h) + 2)
                      ELSE 0
              ELSE 0
    IN IF p1 > 0 THEN p1 ELSE IF p2 > 0 THEN p2 ELSE IF p3 > 0 THEN p3 ELSE p4

_maybe_extract_stay_area(message) ==
    LET m == Lower(Strip(message))
        g == StayAreaStart(m)
        area == Strip(StripTrailingPunct(Strip(SubSeq(m, g, Len(m)))))
    IN IF g = 0 THEN None ELSE IF area = "" THEN None ELSE Some(area)

(***************************************************************************)
(* Profile extractors                                                      *)
(***************************************************************************)
\* \b(\d{l})\s*(u)\b matches in m from position i
NumUnitAt(m, i, l, u) ==
    /\ WordBoundary(m, i)
    /\ i + l - 1 <= Len(m)
    /\ \A j \in i..(i + l - 1) : IsDigit(Char(m, j))
    /\ LET k == SkipWs(m, i + l) IN LitAt(m, k, u) /\ WordBoundary(m, k + Len(u))

_parse_time_days(message) ==
    LET m == Lower(Strip(message))
        units == {"day", "days", "week", "weeks"}
        starts == {i \in 1..Len(m) : \E l \in {1, 2} : \E u \in units : NumUnitAt(m, i, l, u)}
    IN IF starts = {} THEN None
       ELSE LET i == Min(starts)
                l == Max({x \in {1, 2} : \E u \in units : NumUnitAt(m, i, x, u)})
                week == \E u \in {"week", "weeks"} : NumUnitAt(m, i, l, u)
                n == ParseInt(SubSeq(m, i, i + l - 1)) * (IF week THEN 7 ELSE 1)
            IN IF n <= 0 THEN None ELSE Some(n)

\* \bwe\s+are\s+(\d{l})\b matches in m from position i
WeAreAt(m, i, l) ==
    /\ WordBoundary(m, i)
    /\ LitAt(m, i, "we")
    /\ i + 2 <= Len(m) /\ IsSpace(Char(m, i + 2))
    /\ LET a == SkipWs(m, i + 2)
       IN /\ LitAt(m, a, "are")
          /\ a + 3 <= Len(m) /\ IsSpace(Char(m, a + 3))
          /\ LET d == SkipWs(m, a + 3)
             IN /\ d + l - 1 <= Len(m)
                /\ \A j \in d..(d + l - 1) : IsDigit(Char(m, j))
                /\ WordBoundary(m, d + l)

_parse_group(message) ==
    LET m == Lower(Strip(message))
        units == {"people", "persons", "friends", "travelers", "travellers"}
        weare == {i \in 1..Len(m) : \E l \in {1, 2} : WeAreAt(m, i, l)}
        counted == {i \in 1..Len(m) : \E l \in {1, 2} : \E u \in units : NumUnitAt(m, i, l, u)}
        Labelled(n) ==
            IF n <= 0 THEN None
            ELSE Some([label |-> IF n >= 3 THEN "many" ELSE IF n = 2 THEN "duo" ELSE "one", count |-> n])
    IN IF AnyIn(m, {"solo", "alone", "by myself", "just me"}) THEN Some([label |-> "one", count |-> 1])
       ELSE IF AnyIn(m, {"couple", "duo", "two of us", "we two"}) THEN Some([label |-> "duo", count |-> 2])
       ELSE IF weare # {}
       THEN LET i == Min(weare)
                l == Max({x \in {1, 2} : WeAreAt(m, i, x)})
                d == SkipWs(m, SkipWs(m, i + 2) + 3)
            IN Labelled(ParseInt(SubSeq(m, d, d + l - 1)))
       ELSE IF counted # {}
       THEN LET i == Min(counted)
                l == Max({x \in {1, 2} : \E u \in units : NumUnitAt(m, i, x, u)})
            IN Labelled(ParseInt(SubSeq(m, i, i + l - 1)))
       ELSE None

\* the position after \d+(?:\.\d+)? matched greedily from i, or 0 when no digit stands at i
NumberEnd(m, i) ==
    IF i <= Len(m) /\ IsDigit(Char(m, i))
    THEN LET e == SkipDigits(m, i)
         IN IF LitAt(m, e, ".") /\ e + 1 <= Len(m) /\ IsDigit(Char(m, e + 1))
            THEN SkipDigits(m, e + 1)
            ELSE e
    ELSE 0

\* float() of the text m[i..e-1], in hundredths (digits after the second decimal are dropped)
FloatAt(m, i, e) ==
    LET w == SkipDigits(m, i)
        frac == IF w < e THEN SubSeq(m, w + 1, e - 1) ELSE ""
        cents == IF Len(frac) = 0 THEN 0
                 ELSE IF Len(frac) = 1 THEN 10 * ParseInt(frac)
                 ELSE ParseInt(SubSeq(frac, 1, 2))
    IN 100 * ParseInt(SubSeq(m, i, w - 1)) + cents

_parse_budget(message) ==
    LET m == Lower(Strip(message))
        \* \$\s*(\d+(?:\.\d+)?)
        dollar == {i \in 1..Len(m) : LitAt(m, i, "$") /\ NumberEnd(m, SkipWs(m, i + 1)) > 0}
        \* \b(\d+(?:\.\d+)?)\s*(usd|dollars|dollar)\b
        UnitAfter(e) ==
            \E u \in {"usd", "dollars", "dollar"} :
                LET k == SkipWs(m, e) IN LitAt(m, k, u) /\ WordBoundary(m, k + Len(u))
        worded == {i \in 1..Len(m) : WordBoundary(m, i) /\ NumberEnd(m, i) > 0 /\ UnitAfter(NumberEnd(m, i))}
    IN IF AnyIn(m, {"don't know", "dont know", "not sure", "no idea", "haven't decided"})
       THEN [value |-> None, unknown |-> Some(TRUE)]
       ELSE IF dollar # {}
       THEN LET d == SkipWs(m, Min(dollar) + 1)
            IN [value |-> Some(FloatAt(m, d, NumberEnd(m, d))), unknown |-> Some(FALSE)]
       ELSE IF worded # {}
       THEN LET i == Min(worded)
            IN [value |-> Some(FloatAt(m, i, NumberEnd(m, i))), unknown |-> Some(FALSE)]
       ELSE [value |-> None, unknown |-> None]

_parse_comfort(message) ==
    LET m == Lower(Strip(message))
    IN IF AnyIn(m, {"budget", "cheap", "backpacker", "hostel", "basic"}) THEN Some("budget")
       ELSE IF AnyIn(m, {"mid", "mid-range", "midrange", "comfortable", "standard", "3 star", "3-star"})
       THEN Some("mid")
       ELSE IF AnyIn(m, {"luxury", "premium", "5 star", "5-star", "high-end"}) THEN Some("comfortable")
       ELSE None

PreferenceMapping ==
    [history |-> {"history", "historical", "heritage", "old city", "durbar"},
     spiritual |-> {"spiritual", "religious", "temple", "stupa", "monastery", "hindu", "buddhist"},
     architecture |-> {"architecture", "unique building", "tower", "dharahara", "design"},
     food |-> {"food", "momo", "cafes", "coffee", "street food"},
     markets |-> {"market", "shopping", "bazaar", "souvenir"},
     walking |-> {"walk", "walking", "stroll", "on foot"},
     calm |-> {"quiet", "calm", "slow", "peaceful", "courtyard"},
     viewpoints |-> {"view", "viewpoint", "sunrise", "sunset", "hill", "hike"}]

\* sorted(set(prefs)): a sorted list without duplicates is given by its set of tags
_parse_preferences(message) ==
    LET m == Lower(Strip(message))
    IN {label \in DOMAIN PreferenceMapping : AnyIn(m, PreferenceMapping[label])}

(***************************************************************************)
(* Places                                                                  *)
(***************************************************************************)
\* coordinates are (lat, lng) in thousandths of a degree
KATHMANDU_CENTER == <<27717, 85324>>

\* data/pois.json is loaded at start-up and read-only; four of the places main.py names, one
\* more than _candidate_pois is ever asked for
POIS ==
    << [name |-> "Boudhanath Stupa", coordinates |-> <<27721, 85362>>, category |-> "stupa"],
       [name |-> "Garden of Dreams", coordinates |-> <<27714, 85314>>, category |-> "park"],
       [name |-> "Kathmandu Durbar Square", coordinates |-> <<27704, 85307>>, category |-> "heritage"],
       [name |-> "Swayambhunath (Monkey Temple)", coordinates |-> <<27715, 85290>>, category |-> "stupa"] >>

RECURSIVE Slug(_, _)
\* re.sub(r"[^a-z0-9]+", "_", s): inRun says the previous character was already replaced
Slug(s, inRun) ==
    IF Len(s) = 0 THEN ""
    ELSE LET c == Char(s, 1)
             keep == InStr(c, LowerAlpha) \/ IsDigit(c)
             rest == SubSeq(s, 2, Len(s))
         IN IF keep THEN c \o Slug(rest, FALSE)
            ELSE IF inRun THEN Slug(rest, TRUE)
            ELSE "_" \o Slug(rest, TRUE)

RECURSIVE StripUnderscores(_)
\* str.strip("_")
StripUnderscores(s) ==
    IF Len(s) > 0 /\ Char(s, 1) = "_" THEN StripUnderscores(SubSeq(s, 2, Len(s)))
    ELSE IF Len(s) > 0 /\ Char(s, Len(s)) = "_" THEN StripUnderscores(SubSeq(s, 1, Len(s) - 1))
    ELSE s

_place_id(name) ==
    LET s == StripUnderscores(Slug(Lower(name), FALSE))
    IN IF s = "" THEN "place" ELSE s

\* the derived place table, keyed by place id
PLACES ==
    [pid \in {_place_id(POIS[i].name) : i \in 1..Len(POIS)} |->
        LET p == POIS[Max({i \in 1..Len(POIS) : _place_id(POIS[i].name) = pid})]
        IN [id |-> pid, name_en |-> p.name, lat |-> p.coordinates[1], lng |-> p.coordinates[2],
            category |-> p.category]]

_find_poi_by_name(name) ==
    LET hits == {i \in 1..Len(POIS) : Lower(POIS[i].name) = Lower(name)}
    IN IF hits = {} THEN None ELSE Some(POIS[Min(hits)])

\* the longest POI name contained in the message; the first one among equally long names
_find_poi_mention(message) ==
    LET m == Lower(Strip(message))
        hits == {i \in 1..Len(POIS) : POIS[i].name # "" /\ HasSub(m, Lower(POIS[i].name))}
        best == {i \in hits : \A j \in hits : Len(POIS[j].name) <= Len(POIS[i].name)}
    IN IF m = "" \/ hits = {} THEN None ELSE Some(POIS[Min(best)])

RECURSIVE TitleFrom(_, _)
\* str.title(): upper case after a non-letter, lower case after a letter
TitleFrom(s, afterLetter) ==
    IF Len(s) = 0 THEN ""
    ELSE LET c == Char(s, 1)
         IN (IF afterLetter THEN LowerChar(c) ELSE UpperChar(c)) \o TitleFrom(SubSeq(s, 2, Len(s)), IsAlpha(c))

Title(s) == TitleFrom(s, FALSE)

\* chat, stay-area branch: the POI a stay area resolves to, with the two hard-coded alias groups
StayAreaPoi(stay_area) ==
    LET direct == _find_poi_by_name(stay_area)
        a == Lower(stay_area)
    IN IF ~IsNone(direct) THEN direct
       ELSE IF a \in {"boudha", "bouddha", "boudhanath"} THEN _find_poi_by_name("Boudhanath Stupa")
       ELSE IF a \in {"durbar", "durbar square", "kathmandu durbar"} THEN _find_poi_by_name("Kathmandu Durbar Square")
       ELSE None

\* chat, day-building branch: the POI a typed message names (exact name first, then a mention)
NamedPoi(message) ==
    LET place_guess == IF message # "" THEN _looks_like_place_name(message) ELSE None
        exact == IF ~IsNone(place_guess) THEN _find_poi_by_name(Val(place_guess)) ELSE None
    IN IF IsNone(exact) /\ ~IsNone(place_guess) THEN _find_poi_mention(Val(place_guess)) ELSE exact

(***************************************************************************)
(* Budget estimate (budget_estimator.py)                                   *)
(***************************************************************************)
RECURSIVE Str(_)
\* str(n) of a natural number
Str(n) == IF n < 10 THEN Char(Digits, n + 1) ELSE Str(n \div 10) \o Char(Digits, (n % 10) + 1)

RECURSIVE Grouped(_)
\* f"{n:,}": the digits in groups of three
Grouped(n) ==
    IF n < 1000 THEN Str(n)
    ELSE Grouped(n \div 1000) \o "," \o Char(Digits, ((n % 1000) \div 100) + 1)
                                     \o Char(Digits, ((n % 100) \div 10) + 1) \o Char(Digits, (n % 10) + 1)

\* add_range: int(amount * 0.8) and int(amount * 1.3); the amounts are multiples of 100, for
\* which the float products truncate to the exact values.  The two numbers are joined by an
\* en dash in the source.
add_range(amount) == [low |-> Grouped((amount * 8) \div 10), high |-> Grouped((amount * 13) \div 10)]

accommodation_costs == [budget |-> 800, mid |-> 1500, comfortable |-> 2500]

food_costs == [budget |-> 800, mid |-> 1200, comfortable |-> 2000]

transport_costs == [budget |-> 300, mid |-> 500, comfortable |-> 800]

\* dict.get(comfort, default), comfort being None or a string
CostOf(costs, comfort, default) ==
    IF ~IsNone(comfort) /\ Val(comfort) \in DOMAIN costs THEN costs[Val(comfort)] ELSE default

\* estimate_trip_budget that charges every amount per person
estimate_trip_budget_per_person(trip_state) ==
    LET profile == trip_state.trip_profile
        stay_days == profile.time_days
        accommodation == CostOf(accommodation_costs, profile.comfort, 1500)
        food == CostOf(food_costs, profile.comfort, 1200)
        transport == CostOf(transport_costs, profile.comfort, 500)
        entry_fee_per_day == 500
        group_size == IF IsNone(profile.group) THEN 1 ELSE Val(profile.group).count
    IN IF IsNone(profile.group) THEN [status |-> "raise", error |-> "AttributeError"]
       ELSE IF stay_days = 0 THEN [status |-> "raise", error |-> "TypeError"]
       ELSE [status |-> "ok",
             stay |-> add_range(accommodation * stay_days * group_size),
             food |-> add_range(food * stay_days * group_size),
             transport |-> add_range(transport * stay_days * group_size),
             entry_fees |-> add_range(entry_fee_per_day * stay_days * group_size),
             total |-> add_range((accommodation * stay_days + food * stay_days + transport * stay_days
                                  + entry_fee_per_day * stay_days) * group_size),
             currency |-> "NPR",
             days |-> stay_days,
             group_size |-> group_size]

\* estimate_trip_budget.  The profile of a trip state always has its keys, so the defaults of
\* profile.get(...) never apply: an unset group is None and None.get raises AttributeError, an
\* unset time_days is None and the products with it raise TypeError.
estimate_trip_budget(trip_state) ==
    LET profile == trip_state.trip_profile
        stay_days == profile.time_days
        accommodation == CostOf(accommodation_costs, profile.comfort, 1500)
        food == CostOf(food_costs, profile.comfort, 1200)
        transport == CostOf(transport_costs, profile.comfort, 500)
        entry_fee_per_day == 500
    IN IF IsNone(profile.group) THEN [status |-> "raise", error |-> "AttributeError"]
       ELSE IF stay_days = 0 THEN [status |-> "raise", error |-> "TypeError"]
       ELSE [status |-> "ok",
             stay |-> add_range(accommodation * stay_days),
             food |-> add_range(food * stay_days),
             transport |-> add_range(transport * stay_days),
             entry_fees |-> add_range(entry_fee_per_day * stay_days),
             total |-> add_range(accommodation * stay_days + food * stay_days + transport * stay_days
                                 + entry_fee_per_day * stay_days),
             currency |-> "NPR",
             days |-> stay_days,
             group_size |-> Val(profile.group).count]

(***************************************************************************)
(* Retrieval                                                               *)
(***************************************************************************)
RECURSIVE Runs(_, _)
\* re.findall(r"[a-zA-Z']+", s): the maximal runs of letters and apostrophes, cur being the
\* run the scan is in
Runs(s, cur) ==
    IF Len(s) = 0 THEN (IF cur = "" THEN <<>> ELSE <<cur>>)
    ELSE LET c == Char(s, 1)
             rest == SubSeq(s, 2, Len(s))
         IN IF IsAlpha(c) \/ c = "'" THEN Runs(rest, cur \o c)
            ELSE (IF cur = "" THEN <<>> ELSE <<cur>>) \o Runs(rest, "")

\* _tokenize as the list it returns
Tokens(text) == Runs(Lower(text), "")

\* collections.Counter of a token list: token -> number of occurrences
Counter(tokens) ==
    [t \in {tokens[i] : i \in 1..Len(tokens)} |-> Cardinality({i \in 1..Len(tokens) : tokens[i] = t})]

RECURSIVE SumOver(_, _)
SumOver(f, keys) ==
    IF keys = {} THEN 0
    ELSE LET k == CHOOSE x \in keys : TRUE IN f[k] + SumOver(f, keys \ {k})

\* the value dot / sqrt(sq) is kept exact, as the pair of dot and sq = |a|^2 * |b|^2
_cosine_similarity(a, b) ==
    IF DOMAIN a = {} \/ DOMAIN b = {} THEN [dot |-> 0, sq |-> 1]
    ELSE LET dot == SumOver([k \in DOMAIN a |-> a[k] * (IF k \in DOMAIN b THEN b[k] ELSE 0)], DOMAIN a)
             na2 == SumOver([k \in DOMAIN a |-> a[k] * a[k]], DOMAIN a)
             nb2 == SumOver([k \in DOMAIN b |-> b[k] * b[k]], DOMAIN b)
         IN [dot |-> dot, sq |-> na2 * nb2]

\* s > 0.0
Positive(s) == s.dot > 0

\* s >= t, for two similarities
AtLeast(s, t) == s.dot * s.dot * t.sq >= t.dot * t.dot * s.sq

\* SimpleRAG.__init__: the documents and their token counts
SimpleRAG(docs) ==
    [_docs |-> docs,
     _doc_vecs |-> [i \in 1..Len(docs) |-> Counter(Tokens(docs[i].title \o " " \o docs[i].place \o " " \o docs[i].text))]]

RECURSIVE SortedDesc(_, _)
\* list.sort(key=score, reverse=True) is stable: the next element goes behind every element
\* whose score is at least its own
SortedDesc(score, n) ==
    IF n = 0 THEN <<>>
    ELSE LET before == SortedDesc(score, n - 1)
             p == Cardinality({j \in 1..Len(before) : AtLeast(score[before[j]], score[n])})
         IN SubSeq(before, 1, p) \o <<n>> \o SubSeq(before, p + 1, Len(before))

RECURSIVE Positives(_, _)
Positives(score, order) ==
    IF order = <<>> THEN <<>>
    ELSE (IF Positive(score[Head(order)]) THEN <<Head(order)>> ELSE <<>>) \o Positives(score, Tail(order))

\* retrieve that keeps the documents of similarity zero
retrieve_keeps_zero(rag, query, top_k) ==
    LET q == Counter(Tokens(query))
        score == [i \in 1..Len(rag._docs) |-> _cosine_similarity(q, rag._doc_vecs[i])]
        scored == SortedDesc(score, Len(rag._docs))
    IN SubSeq(scored, 1, Min({top_k, Len(scored)}))

\* SimpleRAG.retrieve; a returned document is given by its position in _docs
retrieve(rag, query, top_k) ==
    LET q == Counter(Tokens(query))
        score == [i \in 1..Len(rag._docs) |-> _cosine_similarity(q, rag._doc_vecs[i])]
        scored == SortedDesc(score, Len(rag._docs))
        out == Positives(score, scored)
    IN SubSeq(out, 1, Min({top_k, Len(out)}))

\* data/stories.json is loaded at start-up and read-only; two documents with the fields
\* SimpleRAG reads
STORIES ==
    << [title |-> "Stupa", place |-> "Boudha", text |-> "prayer wheels"],
       [title |-> "Garden", place |-> "Thamel", text |-> "a quiet garden"] >>

(***************************************************************************)
(* Inputs.  The turns of the model draw their messages and event names     *)
(* from these sets; `lexicon` holds, for each of them, what the text       *)
(* functions above return (computed once, in Init, and never changed).     *)
(***************************************************************************)
Messages ==
    {"", "Yes", "no", "not sure", "1 day", "2 days", "1", "3", "solo", "we are 4", "$500", "mid-range", "luxury",
     "history", "I'm staying near Boudha", "staying in Patan", "Boudhanath Stupa", "Garden of Dreams",
     "tell me about Kathmandu Durbar Square", "save day", "tell me everything", "what about pokhara",
     "what ai model are you", "exactly how much does it cost", "actually", "what next", "yes, why not",
     "actually 2 days", "my hotel is near Garden of Dreams"}

EventNames == {"", "Boudhanath Stupa", "Garden of Dreams", "Kathmandu Durbar Square", "My Cafe"}

Analyse(message) ==
    LET stay_area == IF message # "" THEN _maybe_extract_stay_area(message) ELSE None
    IN [yes |-> _looks_like_yes(message),
        no |-> _looks_like_no(message),
        save_day |-> _looks_like_save_day(message),
        too_broad |-> _looks_like_too_broad(message),
        exact_prices |-> _looks_like_exact_prices(message),
        off_topic |-> _looks_like_off_topic(message),
        change_of_mind |-> _looks_like_change_of_mind(message),
        outside |-> _is_outside_kathmandu(message),
        time_days |-> _parse_time_days(message),
        group |-> _parse_group(message),
        budget |-> _parse_budget(message),
        comfort |-> _parse_comfort(message),
        preferences |-> _parse_preferences(message),
        stay_area |-> stay_area,
        stay_poi |-> IF IsNone(stay_area) THEN None ELSE StayAreaPoi(Val(stay_area)),
        stay_title |-> IF IsNone(stay_area) THEN "" ELSE Title(Val(stay_area)),
        poi |-> NamedPoi(message)]

AnalyseName(name) ==
    [place_id |-> _place_id(name), poi |-> _find_poi_by_name(name), lower |-> Lower(name)]

Names == EventNames \cup {POIS[i].name : i \in 1..Len(POIS)} \cup {"Selected place"}

Lexicon ==
    [message |-> [m \in Messages |-> Analyse(m)],
     name |-> [n \in Names |-> AnalyseName(n)],
     PLACES |-> PLACES,
     RAG |-> SimpleRAG(STORIES)]

(***************************************************************************)
(* State                                                                   *)
(***************************************************************************)
VARIABLES
    SESSIONS,   \* session id -> None, or Some([trip_state, history]) once the session exists
    response,   \* what the last request returned
    lexicon,    \* Lexicon, computed once
    pending     \* None, or Some(the create_route turn that waits for the routing backend)

vars == <<SESSIONS, response, lexicon, pending>>

Text(message) == lexicon.message[message]

NameInfo(name) == lexicon.name[name]

Place(pid) == IF pid \in DOMAIN lexicon.PLACES THEN Some(lexicon.PLACES[pid]) ELSE None

_default_trip_state ==
    [hotel |-> None,
     selected_places |-> <<>>,
     routes |-> <<>>,
     ui_stage |-> "intro",
     planning_permission |-> None,
     trip |-> [days |-> <<>>, current_day |-> 1],
     trip_profile |-> [time_days |-> 0, group |-> None, budget |-> None, budget_unknown |-> None,
                       comfort |-> None, preferences |-> {}],
     asked_profile_fields |-> <<>>]

_default_session == [trip_state |-> _default_trip_state, history |-> <<>>]

(***************************************************************************)
(* Itinerary builder                                                       *)
(***************************************************************************)
NewDay(i) == [dayIndex |-> i, visits |-> <<>>, confirmed |-> FALSE]

ConfirmedCount(trip_state) ==
    Cardinality({i \in 1..Len(trip_state.trip.days) : trip_state.trip.days[i].confirmed})

\* _is_trip_complete with the comparison off by one: the confirmed days must outnumber the stay
_is_trip_complete_strict(trip_state) ==
    LET stay_days == trip_state.trip_profile.time_days
    IN IF stay_days <= 0 THEN FALSE
       ELSE IF Len(trip_state.trip.days) = 0 THEN FALSE
       ELSE ConfirmedCount(trip_state) > stay_days

_is_trip_complete(trip_state) ==
    LET stay_days == trip_state.trip_profile.time_days
    IN IF stay_days <= 0 THEN FALSE
       ELSE IF Len(trip_state.trip.days) = 0 THEN FALSE
       ELSE ConfirmedCount(trip_state) >= stay_days

_has_buildable_trip(trip_state) ==
    /\ ~IsNone(trip_state.hotel)
    /\ \E i \in 1..Len(trip_state.trip.days) : trip_state.trip.days[i].confirmed

VisitSet(d) == {d.visits[j] : j \in 1..Len(d.visits)}

\* the ids in any day's visits
PlannedIds(trip_state) == UNION {VisitSet(trip_state.trip.days[i]) : i \in 1..Len(trip_state.trip.days)}

\* _candidate_pois that does not look at the days: the first `limit` places of POIS
_candidate_pois_planned_too(trip_state, limit) ==
    LET out == SelectSeq(POIS, LAMBDA p : ~IsNone(Place(NameInfo(p.name).place_id)))
    IN [k \in 1..(IF Len(out) < limit THEN Len(out) ELSE limit) |-> out[k].name]

\* the first `limit` places, in POIS order, that are in no day's visits
_candidate_pois(trip_state, limit) ==
    LET planned_ids == PlannedIds(trip_state)
        Free(p) == LET pid == NameInfo(p.name).place_id
                   IN pid \notin planned_ids /\ ~IsNone(Place(pid))
        out == SelectSeq(POIS, Free)
    IN [k \in 1..(IF Len(out) < limit THEN Len(out) ELSE limit) |-> out[k].name]

\* _ensure_trip_days that numbers the days it adds from 1
_ensure_trip_days_from_one(trip_state, stay_days) ==
    LET days == trip_state.trip.days
    IN IF stay_days <= 0 \/ Len(days) >= stay_days THEN trip_state
       ELSE [trip_state EXCEPT !.trip.days = days \o [k \in 1..(stay_days - Len(days)) |-> NewDay(k)]]

_ensure_trip_days(trip_state, stay_days) ==
    LET days == trip_state.trip.days
    IN IF stay_days <= 0 \/ Len(days) >= stay_days THEN trip_state
       ELSE [trip_state EXCEPT
                !.trip.days = days \o [k \in 1..(stay_days - Len(days)) |-> NewDay(Len(days) + k)]]

\* _current_day_index that forgets trip.current_day
_current_day_index_first(trip_state) == 1

_current_day_index(trip_state) ==
    IF trip_state.trip.current_day >= 1 THEN trip_state.trip.current_day ELSE 1

\* the position in trip.days of the first day with this dayIndex, 0 when there is none
DayPos(trip_state, day_index) ==
    LET hits == {i \in 1..Len(trip_state.trip.days) : trip_state.trip.days[i].dayIndex = day_index}
    IN IF hits = {} THEN 0 ELSE Min(hits)

\* _find_day returns the day, appending a fresh one when it is missing: this is the state
\* after the call, and Day reads the day it returned
_find_day(trip_state, day_index) ==
    IF DayPos(trip_state, day_index) # 0 THEN trip_state
    ELSE [trip_state EXCEPT !.trip.days = Append(@, NewDay(day_index))]

Day(trip_state, day_index) == trip_state.trip.days[DayPos(trip_state, day_index)]

\* _add_visit_to_day without the two-visit cap
_add_visit_to_day_uncapped(trip_state, day_index, place_id) ==
    LET ts == _find_day(trip_state, day_index)
        pos == DayPos(ts, day_index)
        visits == ts.trip.days[pos].visits
    IN IF \E j \in 1..Len(visits) : visits[j] = place_id
       THEN [trip_state |-> ts, ok |-> FALSE, reason |-> "already_added"]
       ELSE [trip_state |-> [ts EXCEPT !.trip.days[pos].visits = Append(@, place_id)],
             ok |-> TRUE, reason |-> "added"]

\* _add_visit_to_day with its two checks in the other order
_add_visit_to_day_cap_first(trip_state, day_index, place_id) ==
    LET ts == _find_day(trip_state, day_index)
        pos == DayPos(ts, day_index)
        visits == ts.trip.days[pos].visits
    IN IF Len(visits) >= 2
       THEN [trip_state |-> ts, ok |-> FALSE, reason |-> "day_full"]
       ELSE IF \E j \in 1..Len(visits) : visits[j] = place_id
       THEN [trip_state |-> ts, ok |-> FALSE, reason |-> "already_added"]
       ELSE [trip_state |-> [ts EXCEPT !.trip.days[pos].visits = Append(@, place_id)],
             ok |-> TRUE, reason |-> "added"]

_add_visit_to_day(trip_state, day_index, place_id) ==
    LET ts == _find_day(trip_state, day_index)
        pos == DayPos(ts, day_index)
        visits == ts.trip.days[pos].visits
    IN IF \E j \in 1..Len(visits) : visits[j] = place_id
       THEN [trip_state |-> ts, ok |-> FALSE, reason |-> "already_added"]
       ELSE IF Len(visits) >= 2
       THEN [trip_state |-> ts, ok |-> FALSE, reason |-> "day_full"]
       ELSE [trip_state |-> [ts EXCEPT !.trip.days[pos].visits = Append(@, place_id)],
             ok |-> TRUE, reason |-> "added"]

\* _confirm_day that moves on to the next day without marking the day
_confirm_day_unmarked(trip_state, day_index) ==
    LET ts == _find_day(trip_state, day_index)
        cur == IF ts.trip.current_day = 0 THEN 1 ELSE ts.trip.current_day
    IN [ts EXCEPT !.trip.current_day = IF day_index + 1 > cur THEN day_index + 1 ELSE cur]

\* _confirm_day that marks the day and leaves current_day alone
_confirm_day_stay(trip_state, day_index) ==
    LET ts == _find_day(trip_state, day_index)
    IN [ts EXCEPT !.trip.days[DayPos(ts, day_index)].confirmed = TRUE]

\* _confirm_day that writes day_index + 1 without the max
_confirm_day_overwrite(trip_state, day_index) ==
    LET ts == _find_day(trip_state, day_index)
    IN [ts EXCEPT !.trip.days[DayPos(ts, day_index)].confirmed = TRUE, !.trip.current_day = day_index + 1]

_confirm_day(trip_state, day_index) ==
    LET ts == _find_day(trip_state, day_index)
        pos == DayPos(ts, day_index)
        cur == IF ts.trip.current_day = 0 THEN 1 ELSE ts.trip.current_day
    IN [ts EXCEPT !.trip.days[pos].confirmed = TRUE,
                  !.trip.current_day = IF day_index + 1 > cur THEN day_index + 1 ELSE cur]

_upsert_selected_place(trip_state, name, coordinates) ==
    LET existing == trip_state.selected_places
        hits == {i \in 1..Len(existing) : NameInfo(existing[i].name).lower = NameInfo(name).lower}
    IN IF hits # {}
       THEN [trip_state EXCEPT !.selected_places[Min(hits)].coordinates = coordinates]
       ELSE [trip_state EXCEPT !.selected_places = Append(@, [name |-> name, coordinates |-> coordinates])]

_set_hotel(trip_state, name, coordinates) ==
    [trip_state EXCEPT !.hotel = Some([name |-> name, coordinates |-> coordinates])]

\* None when there is no hotel, the day has no visit, or no visit is a known place
_day_preview_text(trip_state, day_index) ==
    LET visits == Day(_find_day(trip_state, day_index), day_index).visits
        known == SelectSeq(visits, LAMBDA pid : ~IsNone(Place(pid)))
    IN IF IsNone(trip_state.hotel) THEN None
       ELSE IF ~(1 <= Len(visits) /\ Len(visits) <= 2) THEN None
       ELSE IF Len(known) = 0 THEN None
       ELSE Some([day |-> day_index,
                  names |-> [k \in 1..Len(known) |-> Val(Place(known[k])).name_en],
                  cost |-> Val(Place(known[1])).category])

\* _update_trip_profile_from_message that records "not sure" whatever the profile holds
_update_trip_profile_from_message_unguarded(trip_state, message) ==
    IF message = "" THEN trip_state
    ELSE LET t == Text(message)
             p0 == trip_state.trip_profile
             p1 == IF ~IsNone(t.time_days) /\ p0.time_days = 0
                   THEN [p0 EXCEPT !.time_days = Val(t.time_days)] ELSE p0
             p2 == IF ~IsNone(t.group) /\ IsNone(p1.group) THEN [p1 EXCEPT !.group = t.group] ELSE p1
             p3 == IF ~IsNone(t.budget.value) /\ IsNone(p2.budget)
                   THEN [p2 EXCEPT !.budget = t.budget.value, !.budget_unknown = Some(FALSE)] ELSE p2
             p4 == IF t.budget.unknown = Some(TRUE) THEN [p3 EXCEPT !.budget_unknown = Some(TRUE)] ELSE p3
             p5 == IF ~IsNone(t.comfort) /\ IsNone(p4.comfort) THEN [p4 EXCEPT !.comfort = t.comfort] ELSE p4
             p6 == IF t.preferences # {} THEN [p5 EXCEPT !.preferences = @ \cup t.preferences] ELSE p5
         IN [trip_state EXCEPT !.trip_profile = p6]

(***************************************************************************)
(* Profile                                                                 *)
(***************************************************************************)
_update_trip_profile_from_message(trip_state, message) ==
    IF message = "" THEN trip_state
    ELSE LET t == Text(message)
             p0 == trip_state.trip_profile
             p1 == IF ~IsNone(t.time_days) /\ p0.time_days = 0
                   THEN [p0 EXCEPT !.time_days = Val(t.time_days)] ELSE p0
             p2 == IF ~IsNone(t.group) /\ IsNone(p1.group) THEN [p1 EXCEPT !.group = t.group] ELSE p1
             p3 == IF ~IsNone(t.budget.value) /\ IsNone(p2.budget)
                   THEN [p2 EXCEPT !.budget = t.budget.value, !.budget_unknown = Some(FALSE)] ELSE p2
             p4 == IF t.budget.unknown = Some(TRUE) /\ IsNone(p3.budget_unknown) /\ IsNone(p3.budget)
                   THEN [p3 EXCEPT !.budget_unknown = Some(TRUE)] ELSE p3
             p5 == IF ~IsNone(t.comfort) /\ IsNone(p4.comfort) THEN [p4 EXCEPT !.comfort = t.comfort] ELSE p4
             p6 == IF t.preferences # {} THEN [p5 EXCEPT !.preferences = @ \cup t.preferences] ELSE p5
         IN [trip_state EXCEPT !.trip_profile = p6]

ProfileOrder == <<"time_days", "group", "budget", "comfort", "preferences">>

InSeq(x, seq) == \E i \in 1..Len(seq) : seq[i] = x

\* _next_profile_field that forgets which fields were asked
_next_profile_field_forgetful(trip_state) ==
    LET profile == trip_state.trip_profile
        missing == (IF profile.time_days = 0 THEN {"time_days"} ELSE {})
                   \cup (IF IsNone(profile.group) THEN {"group"} ELSE {})
                   \cup (IF IsNone(profile.budget) /\ IsNone(profile.budget_unknown) THEN {"budget"} ELSE {})
                   \cup (IF IsNone(profile.comfort) THEN {"comfort"} ELSE {})
                   \cup (IF profile.preferences = {} THEN {"preferences"} ELSE {})
        open == {i \in 1..Len(ProfileOrder) : ProfileOrder[i] \in missing}
    IN IF open = {} THEN None ELSE Some(ProfileOrder[Min(open)])

_next_profile_field(trip_state) ==
    LET profile == trip_state.trip_profile
        asked == trip_state.asked_profile_fields
        missing == (IF profile.time_days = 0 THEN {"time_days"} ELSE {})
                   \cup (IF IsNone(profile.group) THEN {"group"} ELSE {})
                   \cup (IF IsNone(profile.budget) /\ IsNone(profile.budget_unknown) THEN {"budget"} ELSE {})
                   \cup (IF IsNone(profile.comfort) THEN {"comfort"} ELSE {})
                   \cup (IF profile.preferences = {} THEN {"preferences"} ELSE {})
        open == {i \in 1..Len(ProfileOrder) : ProfileOrder[i] \in missing /\ ~InSeq(ProfileOrder[i], asked)}
    IN IF open = {} THEN None ELSE Some(ProfileOrder[Min(open)])

(***************************************************************************)
(* Route composer.  The routing backend is an input: for the k-th leg      *)
(* request of a build it raises, or answers with a JSON geometry.          *)
(***************************************************************************)
\* what the backend answers for a leg from a to b: geometry entries are [lng, lat] pairs
OsrmAnswer(kind, a, b) ==
    CASE kind = "exception" -> [raises |-> TRUE, routes |-> <<>>]
      [] kind = "no_route" -> [raises |-> FALSE, routes |-> <<>>]
      [] kind = "one_point" -> [raises |-> FALSE, routes |-> << <<<<a[2], a[1]>>>> >>]
      [] kind = "path" ->
            [raises |-> FALSE,
             routes |-> << << <<a[2], a[1]>>, <<(a[2] + b[2]) \div 2, a[1]>>, <<b[2], b[1]>> >> >>]
      [] kind = "malformed" -> [raises |-> FALSE, routes |-> << << <<a[2], a[1]>>, <<b[2]>> >> >>]
      [] OTHER -> [raises |-> FALSE, routes |-> << << <<a[2]>>, <<b[2]>> >> >>]

OsrmKinds == {"exception", "no_route", "one_point", "path", "malformed", "garbage"}

\* [raised, value]: value is None or Some(polyline)
_osrm_leg_polyline(a, b, kind) ==
    LET answer == OsrmAnswer(kind, a, b)
        routes == answer.routes
    IN IF answer.raises THEN [raised |-> TRUE, value |-> None]
       ELSE IF Len(routes) = 0 THEN [raised |-> FALSE, value |-> None]
       ELSE LET geom == routes[1]
                good == SelectSeq(geom, LAMBDA c : Len(c) = 2)
            IN IF Len(geom) < 2 THEN [raised |-> FALSE, value |-> None]
               ELSE [raised |-> FALSE, value |-> Some([k \in 1..Len(good) |-> <<good[k][2], good[k][1]>>])]

\* the legs of one confirmed day; calls holds the backend's behaviour for the requests still to come
DayLegs(hc, d, calls) ==
    LET first == SubSeq(d.visits, 1, IF Len(d.visits) < 2 THEN Len(d.visits) ELSE 2)
        known == SelectSeq(first, LAMBDA pid : ~IsNone(Place(pid)))
        coords == <<hc>> \o [j \in 1..Len(known) |-> <<Val(Place(known[j])).lat, Val(Place(known[j])).lng>>]
        names == <<"Hotel">> \o [j \in 1..Len(known) |-> Val(Place(known[j])).name_en]
    IN [j \in 1..Len(known) |->
          LET r == _osrm_leg_polyline(coords[j], coords[j + 1], calls[j])
              failed == r.raised \/ IsNone(r.value) \/ Val(r.value) = <<>>
          IN [day |-> d.dayIndex, from |-> names[j], to |-> names[j + 1],
              polyline |-> IF failed THEN <<coords[j], coords[j + 1]>> ELSE Val(r.value)]]

RECURSIVE RoutesFrom(_, _, _, _)
RoutesFrom(hc, days, i, calls) ==
    IF i > Len(days) THEN <<>>
    ELSE LET d == days[i]
             legs == IF d.confirmed /\ Len(d.visits) > 0 THEN DayLegs(hc, d, calls) ELSE <<>>
         IN legs \o RoutesFrom(hc, days, i + 1, SubSeq(calls, Len(legs) + 1, Len(calls)))

\* a build that a raising backend call aborts: no leg at all
_build_routes_for_confirmed_days_abort(trip_state, calls) ==
    IF IsNone(trip_state.hotel) THEN <<>>
    ELSE IF \E k \in 1..Len(calls) : calls[k] = "exception" THEN <<>>
    ELSE RoutesFrom(Val(trip_state.hotel).coordinates, trip_state.trip.days, 1, calls)

_build_routes_for_confirmed_days(trip_state, calls) ==
    IF IsNone(trip_state.hotel) THEN <<>>
    ELSE RoutesFrom(Val(trip_state.hotel).coordinates, trip_state.trip.days, 1, calls)

(***************************************************************************)
(* Export                                                                  *)
(***************************************************************************)
\* the link is given by the query parameters urlencode writes: origin, destination and the
\* waypoints between them; None for fewer than 2 points
_google_maps_dir_link(points) ==
    IF Len(points) < 2 THEN None
    ELSE Some([origin |-> points[1], destination |-> points[Len(points)],
               waypoints |-> SubSeq(points, 2, Len(points) - 1)])

RECURSIVE ExportLinks(_, _, _)
\* export_plan, the loop over the days from position i on
ExportLinks(hotel, days, i) ==
    IF i > Len(days) THEN <<>>
    ELSE LET d == days[i]
             first == SubSeq(d.visits, 1, IF Len(d.visits) < 2 THEN Len(d.visits) ELSE 2)
             known == SelectSeq(first, LAMBDA pid : ~IsNone(Place(pid)))
             coords == (IF IsNone(hotel) THEN <<>> ELSE <<Val(hotel).coordinates>>)
                       \o [j \in 1..Len(known) |-> <<Val(Place(known[j])).lat, Val(Place(known[j])).lng>>]
             url == _google_maps_dir_link(coords)
             link == IF d.confirmed /\ Len(d.visits) > 0 /\ Len(coords) >= 2 /\ ~IsNone(url)
                     THEN <<[day |-> d.dayIndex, url |-> Val(url)]>> ELSE <<>>
         IN link \o ExportLinks(hotel, days, i + 1)

\* the JSON body of GET /api/export
export_plan(sessions, session_id) ==
    IF IsNone(session_id) \/ ~(Val(session_id) \in DOMAIN sessions /\ ~IsNone(sessions[Val(session_id)]))
    THEN [kind |-> "export_plan", ok |-> FALSE, error |-> "missing_session", days |-> 0, links |-> <<>>]
    ELSE LET trip_state == Val(sessions[Val(session_id)]).trip_state
         IN [kind |-> "export_plan", ok |-> TRUE, error |-> "", days |-> Len(trip_state.trip.days),
             links |-> ExportLinks(trip_state.hotel, trip_state.trip.days, 1)]

(***************************************************************************)
(* The chat handler.  A reply is a tag (with the values its text is built  *)
(* from).  Each part of the handler is an action on the session it was     *)
(* called for: it ends in Respond or Raise, which store the trip state and *)
(* hand the response back.  A value the code computes once and keeps in a  *)
(* local is bound once, with \E x \in {value}.  The handler is written in  *)
(* source order, last part first.                                          *)
(***************************************************************************)
Cmd(c, a) == [cmd |-> c, arg |-> a]

PinCommands(pid) ==
    <<Cmd("map.addPin", pid), Cmd("map.zoomTo", pid), Cmd("ui.showImages", pid), Cmd("ui.showReview", pid),
      Cmd("session.addPlaceToDay", pid)>>

HotelCommands == <<Cmd("map.addPin", "hotel"), Cmd("map.zoomTo", "hotel"), Cmd("session.storeHotel", "hotel")>>

\* the ids requests carry, and the ids uuid4 hands out
SessionIds == {"s1", "s2", "s3"}

Uuids == {"uuid-1", "uuid-2"}

\* session_id in SESSIONS
Known(sessions, sid) == ~IsNone(sessions[sid])

\* _ensure_session whose new session starts from the data of a session that exists
_ensure_session_adopts(sessions, session_id) ==
    IF ~IsNone(session_id) /\ Known(sessions, Val(session_id))
    THEN [sid |-> Val(session_id), sessions |-> sessions]
    ELSE LET sid == IF ~IsNone(session_id) THEN Val(session_id)
                    ELSE CHOOSE u \in Uuids : ~Known(sessions, u)
             others == {x \in DOMAIN sessions : Known(sessions, x)}
         IN [sid |-> sid,
             sessions |-> [sessions EXCEPT ![sid] = IF others = {} THEN Some(_default_session)
                                                    ELSE sessions[CHOOSE x \in others : TRUE]]]

\* _ensure_session that starts a new session on every request, also under a known id
_ensure_session_always_new(sessions, session_id) ==
    LET sid == IF ~IsNone(session_id) THEN Val(session_id)
               ELSE CHOOSE u \in Uuids : ~Known(sessions, u)
    IN [sid |-> sid, sessions |-> [sessions EXCEPT ![sid] = Some(_default_session)]]

\* the stored session of a known id, else a new default session under the given id, or under
\* a fresh id (uuid4) when none is given
_ensure_session(sessions, session_id) ==
    IF ~IsNone(session_id) /\ Known(sessions, Val(session_id))
    THEN [sid |-> Val(session_id), sessions |-> sessions]
    ELSE LET sid == IF ~IsNone(session_id) THEN Val(session_id)
                    ELSE CHOOSE u \in Uuids : ~Known(sessions, u)
         IN [sid |-> sid, sessions |-> [sessions EXCEPT ![sid] = Some(_default_session)]]

\* the request is over: trip_state is what the session's trip state has become
Finish(e, trip_state, status, reply, commands, suggestions) ==
    /\ SESSIONS' = [e.sessions EXCEPT ![e.sid] = Some([Val(@) EXCEPT !.trip_state = trip_state])]
    /\ response' = [session_id |-> e.sid, status |-> status, reply |-> reply, commands |-> commands,
                    suggestions |-> suggestions]
    /\ UNCHANGED <<lexicon, pending>>

\* return JSONResponse({...})
Respond(e, trip_state, reply, commands, suggestions) == Finish(e, trip_state, "ok", reply, commands, suggestions)

\* an exception that leaves chat: the request fails, the mutations made so far stay
Raise(e, trip_state, error) == Finish(e, trip_state, "error", [kind |-> error], <<>>, <<>>)

\* the functions main.py defines at module level (it imports none of its own)
ModuleNames ==
    {"_tokenize", "_cosine_similarity", "_load_json", "_place_id", "_story_for_place",
     "_short_story_text", "_cost_range_for_category", "_default_trip_state", "_looks_like_yes",
     "_looks_like_no", "_is_trip_complete", "_has_buildable_trip", "_candidate_pois",
     "_day_preview_text", "_default_session", "_compact_state", "_is_outside_kathmandu",
     "_looks_like_place_name", "_looks_like_save_day", "_ollama_generate", "_ollama_chat",
     "_context_for_llm", "_maybe_llm_reply", "_system_prompt", "_fallback", "_rag_text_for_query",
     "_find_poi_by_name", "_maybe_extract_stay_area", "_looks_like_build_route",
     "_looks_like_too_broad", "_looks_like_exact_prices", "_looks_like_off_topic",
     "_looks_like_vague_or_confused", "_looks_like_change_of_mind", "_parse_time_days",
     "_parse_group", "_parse_budget", "_parse_comfort", "_parse_preferences",
     "_update_trip_profile_from_message", "_next_profile_field", "_profile_question_for",
     "_ensure_session", "_upsert_selected_place", "_set_hotel", "_build_routes",
     "_build_routes_for_confirmed_days", "_osrm_leg_polyline", "_build_routes_osrm",
     "_suggestions_for_state", "_map_actions_from_state", "_set_map_view", "_find_poi_mention",
     "_looks_like_affirmation", "_split_into_days", "_google_maps_dir_link", "_ensure_trip_days",
     "_current_day_index", "_find_day", "_add_visit_to_day", "_confirm_day", "_export_user_profile",
     "export_plan", "index", "health", "pois", "places", "chat"}

\* what the generation backend does with a request: it answers with a text of more than 5
\* characters, with a shorter one, with none, or the request raises or times out
LlmOutcomes == {"text", "short", "empty", "exception", "timeout"}

\* the backend's text when it answers with more than 5 characters, else the fallback
_maybe_llm_reply(llm, fallback) == IF llm = "text" THEN [kind |-> "llm"] ELSE fallback

\* "Save this as Day n?" after the day preview
PreviewReply(trip_state, day_index) ==
    [kind |-> "preview", day |-> day_index, preview |-> _day_preview_text(trip_state, day_index)]

\* chat, the typed place name: add it to the current day
AddNamedPlace(e, ts, poi, day_index, commands, picks) ==
    \E r \in {_add_visit_to_day(ts, day_index, NameInfo(poi.name).place_id)} :
        IF ~r.ok /\ r.reason = "day_full"
        THEN Respond(e, r.trip_state, [kind |-> "day_full"], commands, picks)
        ELSE \E ts2 \in {_find_day(_upsert_selected_place(r.trip_state, poi.name, poi.coordinates), day_index)} :
                LET pid == NameInfo(poi.name).place_id
                    cmds == IF IsNone(Place(pid)) THEN commands ELSE commands \o PinCommands(pid)
                IN IF Len(Day(ts2, day_index).visits) >= 2
                   THEN Respond(e, [ts2 EXCEPT !.ui_stage = "day_confirm"], PreviewReply(ts2, day_index), cmds,
                                <<"Yes", "No">>)
                   ELSE Respond(e, [ts2 EXCEPT !.ui_stage = "day_suggest"],
                                [kind |-> "added", name |-> poi.name, day |-> day_index], cmds,
                                Append(_candidate_pois(ts2, 3), "Save Day " \o ToString(day_index)))

\* chat, permission granted and no earlier branch returned
GrantedFlow(e, ts0, message, commands, next_field, llm) ==
    \E day_index \in {_current_day_index(ts0)} : \E ts \in {_find_day(ts0, day_index)} :
    \E d \in {Day(ts, day_index)} : \E picks \in {_candidate_pois(ts, 3)} :
        LET stay_days == ts0.trip_profile.time_days
            poi == IF message # "" THEN Text(message).poi ELSE None
        IN IF stay_days > 0 /\ day_index > stay_days /\ _has_buildable_trip(ts0)
           THEN Respond(e, [ts0 EXCEPT !.ui_stage = "done"], [kind |-> "all_planned", days |-> stay_days],
                        Append(commands, Cmd("ui.enableButton", "buildRoute")), <<>>)
           ELSE IF /\ message # "" /\ ts.ui_stage = "day_suggest" /\ Text(message).save_day
                   /\ 1 <= Len(d.visits) /\ Len(d.visits) <= 2
           THEN Respond(e, [ts EXCEPT !.ui_stage = "day_confirm"], PreviewReply(ts, day_index), commands,
                        <<"Yes", "No">>)
           ELSE IF ~IsNone(next_field)
           THEN Respond(e, [ts EXCEPT !.ui_stage = "collect_profile"],
                        [kind |-> "question", field |-> Val(next_field)], commands, <<>>)
           ELSE IF IsNone(ts.hotel)
           THEN Respond(e, [ts EXCEPT !.ui_stage = "collect_hotel"], [kind |-> "ask_hotel"], commands,
                        <<"I'm staying in Thamel", "I'm staying near Boudha", "I'm staying near Durbar Square">>)
           ELSE IF d.confirmed
           THEN Respond(e, ts, [kind |-> "already_confirmed", day |-> day_index], commands, <<>>)
           ELSE IF ~IsNone(poi) /\ ts.ui_stage \in {"day_suggest", "collect_hotel", "collect_profile", "intro"}
           THEN AddNamedPlace(e, ts, Val(poi), day_index, commands, picks)
           ELSE Respond(e, [ts EXCEPT !.ui_stage = "day_suggest"],
                        _maybe_llm_reply(llm, [kind |-> "pick_places", day |-> day_index, picks |-> picks]),
                        commands, picks)

\* AfterMapEvent in which a backend request that raises or times out ends the turn
AfterMapEvent_backend_raises(e, ts, message, commands, next_field, llm) ==
    IF message # "" /\ Text(message).outside
    THEN Respond(e, ts, [kind |-> "off_topic"], commands, <<>>)
    ELSE IF ts.planning_permission = Some(TRUE)
    THEN GrantedFlow(e, ts, message, commands, next_field, llm)
    ELSE IF llm \in {"exception", "timeout"} THEN Raise(e, ts, "HTTPError")
    ELSE Respond(e, ts, _maybe_llm_reply(llm, [kind |-> "vague"]), commands, <<>>)

\* chat, the part after the map events
AfterMapEvent(e, ts, message, commands, next_field, llm) ==
    IF message # "" /\ Text(message).outside
    THEN Respond(e, ts, [kind |-> "off_topic"], commands, <<>>)
    ELSE IF ts.planning_permission = Some(TRUE)
    THEN GrantedFlow(e, ts, message, commands, next_field, llm)
    ELSE Respond(e, ts, _maybe_llm_reply(llm, [kind |-> "vague"]), commands, <<>>)

\* chat, a select_place map event
SelectPlace(e, ts0, map_event, commands) ==
    LET coords0 == map_event.coordinates
        name == IF map_event.name = "" /\ ~IsNone(coords0) THEN "Selected place" ELSE map_event.name
        poi == IF name # "" THEN NameInfo(name).poi ELSE None
        coords == IF ~IsNone(coords0) THEN Val(coords0)
                  ELSE IF ~IsNone(poi) THEN Val(poi).coordinates
                  ELSE KATHMANDU_CENTER
        pid == NameInfo(name).place_id
        day_index == _current_day_index(ts0)
    IN \E r \in {_add_visit_to_day(_upsert_selected_place(ts0, name, coords), day_index, pid)} :
       \E ts \in {r.trip_state} :
          LET cmds == IF IsNone(Place(pid)) THEN commands ELSE commands \o PinCommands(pid)
          IN IF ~r.ok /\ r.reason = "day_full"
             THEN Respond(e, ts, [kind |-> "day_full"], commands, _candidate_pois(ts, 3))
             ELSE IF Len(Day(ts, day_index).visits) >= 2
             THEN Respond(e, [ts EXCEPT !.ui_stage = "day_confirm"], PreviewReply(ts, day_index), cmds,
                          <<"Yes", "No">>)
             ELSE Respond(e, [ts EXCEPT !.ui_stage = "day_suggest"],
                          [kind |-> "second_place", day |-> day_index, place |-> pid], cmds,
                          _candidate_pois(ts, 3))

\* chat, a set_hotel map event
SetHotel(e, ts0, map_event, commands) ==
    LET name == IF map_event.name = "" THEN "Stay" ELSE map_event.name
        coords == IF IsNone(map_event.coordinates) THEN KATHMANDU_CENTER ELSE Val(map_event.coordinates)
    IN \E ts \in {_find_day(_set_hotel(ts0, name, coords), _current_day_index(ts0))} :
          Respond(e, [ts EXCEPT !.ui_stage = "day_suggest"], [kind |-> "stay_set_pin"],
                  commands \o HotelCommands, _candidate_pois(ts, 3))

\* chat, a create_route map event
\* the hotel point, names and coordinates of the legs of one day
DayPoints(hc, d) ==
    LET first == SubSeq(d.visits, 1, IF Len(d.visits) < 2 THEN Len(d.visits) ELSE 2)
        known == SelectSeq(first, LAMBDA pid : ~IsNone(Place(pid)))
    IN [coords |-> <<hc>> \o [j \in 1..Len(known) |-> <<Val(Place(known[j])).lat, Val(Place(known[j])).lng>>],
        names |-> <<"Hotel">> \o [j \in 1..Len(known) |-> Val(Place(known[j])).name_en]]

\* the loop over the days, from position pos of the list as it is now: the position of the
\* next day that has a leg to request, 0 when the loop reaches the end of the list
NextRouted(hc, days, pos) ==
    LET hits == {i \in pos..Len(days) :
                    days[i].confirmed /\ Len(days[i].visits) > 0 /\ Len(DayPoints(hc, days[i]).coords) >= 2}
    IN IF hits = {} THEN 0 ELSE CHOOSE i \in hits : \A j \in hits : i <= j

\* a build that waits for the routing backend's answer to leg number leg of the day at
\* position pos: the names and coordinates were read from the day before the request.
\* began is history, the number of days that were confirmed when the turn arrived
Suspended(sid, commands, hc, days, pos, routes, began) ==
    [sid |-> sid, commands |-> commands, hc |-> hc, pos |-> pos, day |-> days[pos].dayIndex,
     coords |-> DayPoints(hc, days[pos]).coords, names |-> DayPoints(hc, days[pos]).names,
     leg |-> 1, routes |-> routes, began |-> began]

\* a build that loops over a copy of the days taken when the turn arrived: a day confirmed
\* since is still unconfirmed in it
SeenDays_at_arrival(b, ts) ==
    [i \in 1..Len(ts.trip.days) |->
        IF i <= b.began THEN ts.trip.days[i] ELSE [ts.trip.days[i] EXCEPT !.confirmed = FALSE]]

\* the days the build loops over when it resumes: the session's list as it is now
SeenDays(b, ts) == ts.trip.days

\* the create_route turn once the build has returned
RouteDone(e, ts, commands) ==
    /\ SESSIONS' = [e.sessions EXCEPT ![e.sid] = Some([Val(@) EXCEPT !.trip_state = ts])]
    /\ response' = [session_id |-> e.sid, status |-> "ok",
                    reply |-> [kind |-> IF ~_is_trip_complete(ts) THEN "route_unfinished"
                                        ELSE IF ts.routes = <<>> THEN "route_none" ELSE "route_ready"],
                    commands |-> IF _is_trip_complete(ts) /\ ts.routes # <<>>
                                 THEN Append(commands, Cmd("ui.enableButton", "export")) ELSE commands,
                    suggestions |-> <<>>]
    /\ pending' = None
    /\ UNCHANGED lexicon

\* the create_route turn up to its first request to the routing backend
RouteAwait(e, ts0, commands) ==
    \E at \in {IF IsNone(ts0.hotel) THEN 0
                ELSE NextRouted(Val(ts0.hotel).coordinates, ts0.trip.days, 1)} :
        IF at = 0 THEN RouteDone(e, [ts0 EXCEPT !.routes = <<>>], commands)
        ELSE /\ SESSIONS' = [e.sessions EXCEPT ![e.sid] = Some([Val(@) EXCEPT !.trip_state = ts0])]
             /\ pending' = Some(Suspended(e.sid, commands, Val(ts0.hotel).coordinates, ts0.trip.days, at, <<>>,
                                        ConfirmedCount(ts0)))
             /\ UNCHANGED <<response, lexicon>>

\* the create_route turn from the routing backend's answer to the leg it waits for, up to
\* the next request or to the response
RouteResume(kind) ==
    /\ ~IsNone(pending)
    /\ \E b \in {Val(pending)} :
       \E r \in {_osrm_leg_polyline(b.coords[b.leg], b.coords[b.leg + 1], kind)} :
       \E routes \in {Append(b.routes,
                             [day |-> b.day, from |-> b.names[b.leg], to |-> b.names[b.leg + 1],
                              polyline |-> IF r.raised \/ IsNone(r.value) \/ Val(r.value) = <<>>
                                           THEN <<b.coords[b.leg], b.coords[b.leg + 1]>>
                                           ELSE Val(r.value)])} :
       \E ts \in {Val(SESSIONS[b.sid]).trip_state} :
          IF b.leg + 1 < Len(b.coords)
          THEN /\ pending' = Some([b EXCEPT !.leg = b.leg + 1, !.routes = routes])
               /\ UNCHANGED <<SESSIONS, response, lexicon>>
          ELSE \E at \in {NextRouted(b.hc, SeenDays(b, ts), b.pos + 1)} :
                  IF at = 0
                  THEN RouteDone([sid |-> b.sid, sessions |-> SESSIONS], [ts EXCEPT !.routes = routes], b.commands)
                  ELSE /\ pending' = Some(Suspended(b.sid, b.commands, b.hc, SeenDays(b, ts), at, routes, b.began))
                       /\ UNCHANGED <<SESSIONS, response, lexicon>>

CreateRoute(e, ts0, commands, calls) ==
    IF calls = <<"await">> THEN RouteAwait(e, ts0, commands)
    ELSE
    \E ts \in {[ts0 EXCEPT !.routes = _build_routes_for_confirmed_days(ts0, calls)]} :
        IF ~_is_trip_complete(ts) THEN Respond(e, ts, [kind |-> "route_unfinished"], commands, <<>>)
        ELSE IF ts.routes = <<>> THEN Respond(e, ts, [kind |-> "route_none"], commands, <<>>)
        ELSE Respond(e, ts, [kind |-> "route_ready"], Append(commands, Cmd("ui.enableButton", "export")), <<>>)

\* chat, from the side-channel replies to the map events
SideChannels(e, ts, message, map_event, commands, next_field, llm, calls) ==
    LET t == Text(message)
        et == IF IsNone(map_event) THEN "" ELSE Val(map_event).type
    IN IF message # "" /\ t.off_topic THEN Respond(e, ts, [kind |-> "off_topic"], commands, <<>>)
       ELSE IF message # "" /\ t.too_broad THEN Respond(e, ts, [kind |-> "too_broad"], commands, <<>>)
       ELSE IF message # "" /\ t.exact_prices THEN Respond(e, ts, [kind |-> "exact_prices"], commands, <<>>)
       ELSE IF message # "" /\ t.change_of_mind THEN Respond(e, ts, [kind |-> "changes_mind"], commands, <<>>)
       ELSE IF et = "select_place" THEN SelectPlace(e, ts, Val(map_event), commands)
       ELSE IF et = "set_hotel" THEN SetHotel(e, ts, Val(map_event), commands)
       ELSE IF et = "create_route" THEN CreateRoute(e, ts, commands, calls)
       ELSE AfterMapEvent(e, ts, message, commands, next_field, llm)

\* the commands with the buttons the trip has earned
ButtonCommands(ts, commands) ==
    LET c1 == IF _has_buildable_trip(ts) THEN Append(commands, Cmd("ui.enableButton", "buildRoute")) ELSE commands
    IN IF _is_trip_complete(ts) /\ ts.routes # <<>> THEN Append(c1, Cmd("ui.enableButton", "export")) ELSE c1

\* chat, the buttons and the next profile question; the field is recorded as asked here
ProfileQuestion(e, ts0, message, map_event, commands0, llm, calls) ==
    \E commands \in {ButtonCommands(ts0, commands0)} :
    \E next_field \in {IF ts0.planning_permission = Some(TRUE) THEN _next_profile_field(ts0) ELSE None} :
    \E ts \in {IF ~IsNone(next_field) /\ ~InSeq(Val(next_field), ts0.asked_profile_fields)
               THEN [ts0 EXCEPT !.asked_profile_fields = Append(@, Val(next_field))]
               ELSE ts0} :
        SideChannels(e, ts, message, map_event, commands, next_field, llm, calls)

\* chat, a stay-area message while permission is granted
StayArea(e, ts0, message, map_event, commands, llm, calls) ==
    LET t == Text(message)
        stay_area == IF message # "" THEN t.stay_area ELSE None
    IN IF ts0.planning_permission = Some(TRUE) /\ ~IsNone(stay_area) /\ ~IsNone(t.stay_poi)
       THEN \E ts \in {_find_day(_set_hotel(ts0, t.stay_title, Val(t.stay_poi).coordinates),
                                 _current_day_index(ts0))} :
               Respond(e, [ts EXCEPT !.ui_stage = "day_suggest"], [kind |-> "stay_set"],
                       commands \o HotelCommands, _candidate_pois(ts, 3))
       ELSE ProfileQuestion(e, ts0, message, map_event, commands, llm, calls)

\* chat, the 'yes' that confirms the current day
ConfirmCurrentDay(e, ts, day_index, commands) ==
    \E ts2 \in {_confirm_day(ts, day_index)} :
        LET cmds == Append(commands, Cmd("session.confirmDay", ToString(day_index)))
            next_day == _current_day_index(ts2)
            stay_days == ts2.trip_profile.time_days
        IN IF _is_trip_complete(ts2)
           THEN IF "_final_trip_summary" \in ModuleNames
                THEN Respond(e, [ts2 EXCEPT !.ui_stage = "done"], [kind |-> "final_summary"],
                             Append(cmds, Cmd("ui.enableButton", "buildRoute")), <<>>)
                ELSE Raise(e, ts2, "NameError")
           ELSE IF stay_days > 0 /\ next_day > stay_days
           THEN Respond(e, [ts2 EXCEPT !.ui_stage = "done"], [kind |-> "all_planned", days |-> stay_days],
                        Append(cmds, Cmd("ui.enableButton", "buildRoute")), <<>>)
           ELSE Respond(e, [ts2 EXCEPT !.ui_stage = "day_suggest"],
                        [kind |-> "day_saved", day |-> day_index, next |-> next_day], cmds,
                        _candidate_pois(ts2, 3))

\* DayConfirm whose 'no' goes back to day_suggest with the visits still in the day
DayConfirm_keeps_visits(e, ts0, message, map_event, commands, llm, calls) ==
    IF ~(ts0.planning_permission = Some(TRUE) /\ ts0.ui_stage = "day_confirm" /\ message # "")
    THEN StayArea(e, ts0, message, map_event, commands, llm, calls)
    ELSE \E day_index \in {_current_day_index(ts0)} : \E ts \in {_find_day(ts0, day_index)} :
         \E d \in {Day(ts, day_index)} :
            IF Text(message).yes /\ ~IsNone(ts.hotel) /\ 1 <= Len(d.visits) /\ Len(d.visits) <= 2
            THEN ConfirmCurrentDay(e, ts, day_index, commands)
            ELSE IF Text(message).no
            THEN \E ts2 \in {[ts EXCEPT !.ui_stage = "day_suggest"]} :
                    Respond(e, ts2, [kind |-> "day_cleared", day |-> day_index], commands, _candidate_pois(ts2, 3))
            ELSE StayArea(e, ts, message, map_event, commands, llm, calls)

\* DayConfirm that confirms on any yes, whatever the day holds and with or without a hotel
DayConfirm_any_day(e, ts0, message, map_event, commands, llm, calls) ==
    IF ~(ts0.planning_permission = Some(TRUE) /\ ts0.ui_stage = "day_confirm" /\ message # "")
    THEN StayArea(e, ts0, message, map_event, commands, llm, calls)
    ELSE \E day_index \in {_current_day_index(ts0)} : \E ts \in {_find_day(ts0, day_index)} :
         \E d \in {Day(ts, day_index)} :
            IF Text(message).yes
            THEN ConfirmCurrentDay(e, ts, day_index, commands)
            ELSE IF Text(message).no
            THEN \E ts2 \in {[ts EXCEPT !.trip.days[DayPos(ts, day_index)].visits = <<>>,
                                        !.ui_stage = "day_suggest"]} :
                    Respond(e, ts2, [kind |-> "day_cleared", day |-> day_index],
                            commands \o [j \in 1..Len(d.visits) |-> Cmd("map.removePin", d.visits[j])],
                            _candidate_pois(ts2, 3))
            ELSE StayArea(e, ts, message, map_event, commands, llm, calls)

\* chat, a message in ui_stage day_confirm while permission is granted
DayConfirm(e, ts0, message, map_event, commands, llm, calls) ==
    IF ~(ts0.planning_permission = Some(TRUE) /\ ts0.ui_stage = "day_confirm" /\ message # "")
    THEN StayArea(e, ts0, message, map_event, commands, llm, calls)
    ELSE \E day_index \in {_current_day_index(ts0)} : \E ts \in {_find_day(ts0, day_index)} :
         \E d \in {Day(ts, day_index)} :
            IF Text(message).yes /\ ~IsNone(ts.hotel) /\ 1 <= Len(d.visits) /\ Len(d.visits) <= 2
            THEN ConfirmCurrentDay(e, ts, day_index, commands)
            ELSE IF Text(message).no
            THEN \E ts2 \in {[ts EXCEPT !.trip.days[DayPos(ts, day_index)].visits = <<>>,
                                        !.ui_stage = "day_suggest"]} :
                    Respond(e, ts2, [kind |-> "day_cleared", day |-> day_index],
                            commands \o [j \in 1..Len(d.visits) |-> Cmd("map.removePin", d.visits[j])],
                            _candidate_pois(ts2, 3))
            ELSE StayArea(e, ts, message, map_event, commands, llm, calls)

\* chat, planning permission declined
Declined(e, ts0, message, map_event, commands, llm, calls) ==
    IF ts0.planning_permission = Some(FALSE)
    THEN IF message # "" /\ Text(message).yes
         THEN \E ts \in {[ts0 EXCEPT !.planning_permission = Some(TRUE), !.ui_stage = "collect_profile"]} :
                 DayConfirm(e, ts, message, map_event, commands, llm, calls)
         ELSE Respond(e, ts0, [kind |-> "ideas"], commands, _candidate_pois(ts0, 3))
    ELSE DayConfirm(e, ts0, message, map_event, commands, llm, calls)

\* AskPermission that hears only the yes: a no-like message leaves the permission unknown
AskPermission_yes_only(e, ts0, message, map_event, commands, llm, calls) ==
    \E ts \in {IF message # "" /\ IsNone(ts0.planning_permission) /\ Text(message).yes
               THEN [ts0 EXCEPT !.planning_permission = Some(TRUE), !.ui_stage = "collect_profile"]
               ELSE ts0} :
        Declined(e, ts, message, map_event, commands, llm, calls)

\* chat, planning permission not asked yet
AskPermission(e, ts0, message, map_event, commands, llm, calls) ==
    \E ts \in {IF message # "" /\ IsNone(ts0.planning_permission)
               THEN IF Text(message).yes
                    THEN [ts0 EXCEPT !.planning_permission = Some(TRUE), !.ui_stage = "collect_profile"]
                    ELSE IF Text(message).no
                    THEN [ts0 EXCEPT !.planning_permission = Some(FALSE), !.ui_stage = "inspiration"]
                    ELSE ts0
               ELSE ts0} :
        Declined(e, ts, message, map_event, commands, llm, calls)

\* ChatTurn that reads the profile from every message, whatever the permission
ChatTurn_always_extracts(e, ts0, message, map_event, llm, calls) ==
    \E ts1 \in {IF message # "" THEN _update_trip_profile_from_message(ts0, message) ELSE ts0} :
    \E ts2 \in {IF ts1.trip_profile.time_days > 0
                THEN _ensure_trip_days(ts1, IF ts1.trip_profile.time_days < 14
                                            THEN ts1.trip_profile.time_days ELSE 14)
                ELSE ts1} :
        LET commands == <<Cmd("session.storePlaces", "PLACES"), Cmd("session.storeProfile", "profile")>>
        IN IF message = "" /\ IsNone(map_event)
           THEN Respond(e, [ts2 EXCEPT !.ui_stage = "intro"], [kind |-> "intro"], commands, <<"Yes", "No">>)
           ELSE AskPermission(e, ts2, message, map_event, commands, llm, calls)

\* chat on the session's trip state
ChatTurn(e, ts0, message, map_event, llm, calls) ==
    \E ts1 \in {IF message # "" /\ ts0.planning_permission = Some(TRUE)
                THEN _update_trip_profile_from_message(ts0, message) ELSE ts0} :
    \E ts2 \in {IF ts1.trip_profile.time_days > 0
                THEN _ensure_trip_days(ts1, IF ts1.trip_profile.time_days < 14
                                            THEN ts1.trip_profile.time_days ELSE 14)
                ELSE ts1} :
        LET commands == <<Cmd("session.storePlaces", "PLACES"), Cmd("session.storeProfile", "profile")>>
        IN IF message = "" /\ IsNone(map_event)
           THEN Respond(e, [ts2 EXCEPT !.ui_stage = "intro"], [kind |-> "intro"], commands, <<"Yes", "No">>)
           ELSE AskPermission(e, ts2, message, map_event, commands, llm, calls)

\* one request to /api/chat
chat(session_id, message, map_event, llm, calls) ==
    \E e \in {_ensure_session(SESSIONS, session_id)} :
        ChatTurn(e, Val(e.sessions[e.sid]).trip_state, message, map_event, llm, calls)

(***************************************************************************)
(* Specifications.  One client talks to one session; each specification    *)
(* gives the client a vocabulary.                                          *)
(***************************************************************************)
NoResponse == [session_id |-> "", status |-> "none", reply |-> [kind |-> ""], commands |-> <<>>, suggestions |-> <<>>]

NoSessions == [sid \in SessionIds \cup Uuids |-> None]

Init ==
    /\ SESSIONS = NoSessions
    /\ response = NoResponse
    /\ lexicon = Lexicon
    /\ pending = None

\* a session is followed until MaxDays of its days are confirmed: a request that would
\* confirm one more is not taken
MaxDays == 1

Bounded(sessions) ==
    \A sid \in DOMAIN sessions :
        IF Known(sessions, sid) THEN Val(sessions[sid]).trip_state.trip.current_day <= MaxDays + 1 ELSE TRUE

\* the routing backend behaves the same way for every leg of a build
MaxLegs == 2 * (MaxDays + 1)

Calls(kind) == [k \in 1..MaxLegs |-> kind]

MapEvent(type, name, coordinates) == Some([type |-> type, name |-> name, coordinates |-> coordinates])

\* ---- Spec: the guided conversation, two places, every kind of request ----
TurnMessages ==
    {"Yes", "no", "yes, why not", "1 day", "I'm staying near Boudha", "Boudhanath Stupa", "Garden of Dreams",
     "save day"}

TurnPlaces == {"Garden of Dreams"}

SendEmpty ==
    /\ chat(Some("s1"), "", None, "exception", Calls("exception"))
    /\ Bounded(SESSIONS')

SendMessage ==
    \E m \in TurnMessages : \E llm \in {"text", "exception"} :
        /\ chat(Some("s1"), m, None, llm, Calls("exception"))
        /\ Bounded(SESSIONS')

SelectPlaceEvent ==
    \E n \in TurnPlaces :
        /\ chat(Some("s1"), "", MapEvent("select_place", n, None), "exception", Calls("exception"))
        /\ Bounded(SESSIONS')

SetHotelEvent ==
    /\ chat(Some("s1"), "", MapEvent("set_hotel", "", None), "exception", Calls("exception"))
    /\ Bounded(SESSIONS')

CreateRouteEvent ==
    /\ chat(Some("s1"), "", MapEvent("create_route", "", None), "exception", Calls("exception"))
    /\ Bounded(SESSIONS')

Next == SendEmpty \/ SendMessage \/ SelectPlaceEvent \/ SetHotelEvent \/ CreateRouteEvent

Spec == Init /\ [][Next]_vars

\* ---- SpecCap: three places compete for the two slots of a day ----
CapMessages == {"Yes", "Boudhanath Stupa", "Garden of Dreams"}

CapPlaces == {"Garden of Dreams", "My Cafe"}

CapMessage ==
    \E m \in CapMessages :
        /\ chat(Some("s1"), m, None, "exception", Calls("exception"))
        /\ Bounded(SESSIONS')

CapSelectPlace ==
    \E n \in CapPlaces :
        /\ chat(Some("s1"), "", MapEvent("select_place", n, None), "exception", Calls("exception"))
        /\ Bounded(SESSIONS')

CapSetHotel ==
    /\ chat(Some("s1"), "", MapEvent("set_hotel", "", None), "exception", Calls("exception"))
    /\ Bounded(SESSIONS')

CapCreateRoute ==
    /\ chat(Some("s1"), "", MapEvent("create_route", "", None), "exception", Calls("exception"))
    /\ Bounded(SESSIONS')

NextCap == CapMessage \/ CapSelectPlace \/ CapSetHotel \/ CapCreateRoute

SpecCap == Init /\ [][NextCap]_vars

\* ---- SpecProfile: the profile questions answered in any order, any number of times ----
ProfileMessages ==
    {"Yes", "no", "1 day", "2 days", "1", "3", "solo", "we are 4", "not sure", "$500", "mid-range", "luxury",
     "history"}

ProfileMessage ==
    \E m \in ProfileMessages :
        /\ chat(Some("s1"), m, None, "exception", Calls("exception"))
        /\ Bounded(SESSIONS')

ProfileEmpty ==
    /\ chat(Some("s1"), "", None, "exception", Calls("exception"))
    /\ Bounded(SESSIONS')

NextProfile == ProfileMessage \/ ProfileEmpty

SpecProfile == Init /\ [][NextProfile]_vars

\* ---- the itinerary operations called directly, on any trip ----
\* the trips drawn hold at most MaxFnDays days
MaxFnDays == 2

FnPlaces == {"Boudhanath Stupa", "Garden of Dreams", "My Cafe"}

FnPlaceIds == {lexicon.name[n].place_id : n \in FnPlaces}

\* no place twice, at most two places
FnVisits ==
    {<<>>} \cup {<<a>> : a \in FnPlaceIds} \cup {<<a, b>> : <<a, b>> \in {x \in FnPlaceIds \X FnPlaceIds : x[1] # x[2]}}

\* the day lists _ensure_trip_days and _find_day build: day i at position i
FnDayLists(visits, flags) ==
    UNION {{[i \in 1..k |-> [dayIndex |-> i, visits |-> f[i][1], confirmed |-> f[i][2]]] :
                f \in [1..k -> visits \X flags]} : k \in 0..MaxFnDays}

FnSessions(days, current_day, time_days) ==
    [NoSessions EXCEPT !["s1"] =
        Some([_default_session EXCEPT !.trip_state.trip = [days |-> days, current_day |-> current_day],
                                      !.trip_state.trip_profile.time_days = time_days])]

FnReturn(trip_state, reply) ==
    /\ SESSIONS' = [SESSIONS EXCEPT !["s1"] = Some([Val(@) EXCEPT !.trip_state = trip_state])]
    /\ response' = [session_id |-> "s1", status |-> "returned", reply |-> reply, commands |-> <<>>,
                    suggestions |-> <<>>]
    /\ UNCHANGED <<lexicon, pending>>

\* ---- SpecConfirm: _confirm_day and _is_trip_complete ----
InitConfirm ==
    /\ lexicon = Lexicon
    /\ pending = None
    /\ response = NoResponse
    /\ \E days \in FnDayLists({<<>>}, BOOLEAN) : \E current_day \in 1..(MaxFnDays + 1) :
          \E time_days \in 0..(MaxFnDays + 1) : SESSIONS = FnSessions(days, current_day, time_days)

FnConfirmDay ==
    \E n \in 1..MaxFnDays :
        /\ Known(SESSIONS, "s1")
        /\ FnReturn(_confirm_day(Val(SESSIONS["s1"]).trip_state, n), [kind |-> "_confirm_day", day |-> n])

FnIsTripComplete ==
    /\ Known(SESSIONS, "s1")
    /\ \E trip_state \in {Val(SESSIONS["s1"]).trip_state} :
          FnReturn(trip_state, [kind |-> "_is_trip_complete", value |-> _is_trip_complete(trip_state)])

NextConfirm == FnConfirmDay \/ FnIsTripComplete

SpecConfirm == InitConfirm /\ [][NextConfirm]_vars

\* ---- SpecVisits: _add_visit_to_day ----
InitVisits ==
    /\ lexicon = Lexicon
    /\ pending = None
    /\ response = NoResponse
    /\ \E days \in FnDayLists(FnVisits, {FALSE}) : SESSIONS = FnSessions(days, 1, 0)

FnAddVisit ==
    \E n \in 1..MaxFnDays : \E pid \in FnPlaceIds :
        /\ Known(SESSIONS, "s1")
        /\ \E r \in {_add_visit_to_day(Val(SESSIONS["s1"]).trip_state, n, pid)} :
              FnReturn(r.trip_state, [kind |-> "_add_visit_to_day", day |-> n, place_id |-> pid, ok |-> r.ok,
                                      reason |-> r.reason])

NextVisits == FnAddVisit

SpecVisits == InitVisits /\ [][NextVisits]_vars

\* ---- SpecSide: side-channel cues in the middle of the profile questions ----
SideMessages ==
    {"Yes", "no", "1 day", "what next", "actually", "actually 2 days", "tell me everything", "what ai model are you",
     "exactly how much does it cost", "what about pokhara"}

SideMessage ==
    \E m \in SideMessages :
        /\ chat(Some("s1"), m, None, "exception", Calls("exception"))
        /\ Bounded(SESSIONS')

SideEmpty ==
    /\ chat(Some("s1"), "", None, "exception", Calls("exception"))
    /\ Bounded(SESSIONS')

NextSide == SideMessage \/ SideEmpty

SpecSide == Init /\ [][NextSide]_vars

\* ---- SpecChannels: the same request sent as a map event and as typed text ----
\* Client s1 talks first.  Then a second client is taken to have had the very same
\* conversation (chat is a function of the session and the request, so its session holds the
\* same trip state): s2 will type the place that s1 selects on the map, s3 will type the stay
\* area that s1 pins on the map.
ChannelMessages == {"Yes", "no", "what next", "I'm staying near Boudha", "Boudhanath Stupa"}

ChannelPlace == "Garden of Dreams"

ChannelStay == "I'm staying near Boudha"

Twins == {"s2", "s3"}

NoTwin == \A t \in Twins : ~Known(SESSIONS, t)

ChannelMessage ==
    \E m \in ChannelMessages :
        /\ NoTwin
        /\ chat(Some("s1"), m, None, "exception", Calls("exception"))
        /\ Bounded(SESSIONS')

SameConversation ==
    \E t \in Twins :
        /\ NoTwin
        /\ Known(SESSIONS, "s1")
        /\ SESSIONS' = [SESSIONS EXCEPT ![t] = SESSIONS["s1"]]
        /\ response' = [NoResponse EXCEPT !.session_id = t]
        /\ UNCHANGED <<lexicon, pending>>

\* s1 uses the map: the place for the twin s2, the stay for the twin s3 (the pin carries the
\* name and the coordinates the stay-area phrase resolves to)
MapTurn ==
    \E t \in Twins :
        /\ response = [NoResponse EXCEPT !.session_id = t]
        /\ chat(Some("s1"), "",
                IF t = "s2" THEN MapEvent("select_place", ChannelPlace, None)
                ELSE MapEvent("set_hotel", lexicon.message[ChannelStay].stay_title,
                              Some(Val(lexicon.message[ChannelStay].stay_poi).coordinates)),
                "exception", Calls("exception"))
        /\ Bounded(SESSIONS')

\* the twin types the same thing
TypedTurn ==
    \E t \in Twins :
        /\ Known(SESSIONS, t)
        /\ response.session_id = "s1"
        /\ chat(Some(t), IF t = "s2" THEN ChannelPlace ELSE ChannelStay, None, "exception", Calls("exception"))
        /\ Bounded(SESSIONS')

NextChannels == ChannelMessage \/ SameConversation \/ MapTurn \/ TypedTurn

SpecChannels == Init /\ [][NextChannels]_vars

\* ---- SpecRoutes: the route build of a create_route turn and the export, on any trip with a stay ----
\* a day is open, or confirmed with one or two visits; "my_cafe" is a visit that is not a place
RouteVisits ==
    LET a == lexicon.name["Boudhanath Stupa"].place_id
        b == lexicon.name["Garden of Dreams"].place_id
        c == lexicon.name["My Cafe"].place_id
    IN {<<a>>, <<a, b>>, <<c, b>>, <<b, c>>, <<c>>}

RouteDayLists ==
    UNION {{[i \in 1..k |-> [dayIndex |-> i, visits |-> f[i][1], confirmed |-> f[i][2]]] :
                f \in [1..k -> (RouteVisits \X {TRUE}) \cup {<<<<>>, FALSE>>, <<<<lexicon.name["Garden of Dreams"].place_id>>, FALSE>>}]} :
           k \in 1..MaxFnDays}

\* the number of requests a build sends to the routing backend
LegsOf(days) ==
    LET Known2(d) == SelectSeq(d.visits, LAMBDA pid : ~IsNone(Place(pid)))
        legs == [i \in 1..Len(days) |-> IF days[i].confirmed THEN Len(Known2(days[i])) ELSE 0]
        Sum[i \in 0..Len(days)] == IF i = 0 THEN 0 ELSE Sum[i - 1] + legs[i]
    IN Sum[Len(days)]

InitRoutes ==
    /\ lexicon = Lexicon
    /\ pending = None
    /\ response = NoResponse
    /\ \E days \in RouteDayLists :
          SESSIONS = [NoSessions EXCEPT !["s1"] =
                         Some([_default_session EXCEPT
                                  !.trip_state.trip = [days |-> days, current_day |-> Len(days) + 1],
                                  !.trip_state.planning_permission = Some(TRUE),
                                  !.trip_state.ui_stage = "day_suggest",
                                  !.trip_state.hotel = Some([name |-> "Stay", coordinates |-> KATHMANDU_CENTER])])]

\* trip_state["routes"] = await _build_routes_for_confirmed_days(trip_state), the backend
\* answering the k-th request as calls[k] says; the build does not read the routes of an
\* earlier build, so one build per trip is followed
FnBuildRoutes ==
    /\ Known(SESSIONS, "s1")
    /\ response.status = "none"
    /\ \E trip_state \in {Val(SESSIONS["s1"]).trip_state} :
       \E calls \in [1..LegsOf(trip_state.trip.days) -> OsrmKinds] :
          FnReturn([trip_state EXCEPT !.routes = _build_routes_for_confirmed_days(trip_state, calls)],
                   [kind |-> "_build_routes_for_confirmed_days", calls |-> calls])

\* GET /api/export for the session, or for an id no session has; the request reads SESSIONS
\* and writes nothing
ExportPlan ==
    \E session_id \in {Some("s1"), Some("s2"), None} :
        /\ response.status = "none"
        /\ response' = [session_id |-> IF IsNone(session_id) THEN "" ELSE Val(session_id), status |-> "returned",
                        reply |-> export_plan(SESSIONS, session_id), commands |-> <<>>, suggestions |-> <<>>]
        /\ UNCHANGED <<SESSIONS, lexicon, pending>>

NextRoutes == FnBuildRoutes \/ ExportPlan

SpecRoutes == InitRoutes /\ [][NextRoutes]_vars

\* ---- SpecStay: where the traveller stays, typed and pinned, and the days built around it ----
StayMessages ==
    {"Yes", "no", "not sure", "yes, why not", "I'm staying near Boudha", "staying in Patan",
     "my hotel is near Garden of Dreams", "Boudhanath Stupa"}

StayPlaces == {"Garden of Dreams", "Boudhanath Stupa"}

\* the backend answers, or it does not (every failure ends in the same fallback)
StayMessage ==
    \E m \in StayMessages : \E llm \in {"text", "exception"} :
        /\ chat(Some("s1"), m, None, llm, Calls("exception"))
        /\ Bounded(SESSIONS')

StaySelectPlace ==
    \E n \in StayPlaces :
        /\ chat(Some("s1"), "", MapEvent("select_place", n, None), "exception", Calls("exception"))
        /\ Bounded(SESSIONS')

StaySetHotel ==
    /\ chat(Some("s1"), "", MapEvent("set_hotel", "", None), "exception", Calls("exception"))
    /\ Bounded(SESSIONS')

NextStay == StayMessage \/ StaySelectPlace \/ StaySetHotel

SpecStay == Init /\ [][NextStay]_vars

\* ---- SpecScript: the guided conversation of the end-to-end tests, a client that follows the prompts ----
\* The client opens with an empty message, accepts the offer, answers each profile question
\* with a value for the field asked, names where it stays when asked, names two different
\* places for each day and confirms each preview.  It plans as many days as are followed.
ScriptAnswers ==
    [time_days |-> {m \in {"1 day", "2 days"} : Val(lexicon.message[m].time_days) <= MaxDays},
     group |-> {"solo", "we are 4"},
     budget |-> {"$500", "not sure"},
     comfort |-> {"mid-range", "luxury"},
     preferences |-> {"history"}]

ScriptStays == {"I'm staying near Boudha", "my hotel is near Garden of Dreams"}

ScriptPlaces == {"Boudhanath Stupa", "Garden of Dreams", "tell me about Kathmandu Durbar Square"}

ScriptOpen ==
    /\ response.status = "none"
    /\ chat(Some("s1"), "", None, "exception", Calls("exception"))
    /\ Bounded(SESSIONS')

ScriptAccept ==
    /\ response.reply.kind = "intro"
    /\ chat(Some("s1"), "Yes", None, "exception", Calls("exception"))
    /\ Bounded(SESSIONS')

ScriptAnswer ==
    /\ response.reply.kind = "question"
    /\ \E m \in ScriptAnswers[response.reply.field] :
          /\ chat(Some("s1"), m, None, "exception", Calls("exception"))
          /\ Bounded(SESSIONS')

ScriptStay ==
    /\ response.reply.kind = "ask_hotel"
    /\ \E m \in ScriptStays :
          /\ chat(Some("s1"), m, None, "exception", Calls("exception"))
          /\ Bounded(SESSIONS')

\* a place the current day does not hold yet
ScriptPlace ==
    /\ response.reply.kind \in {"stay_set", "added", "day_saved"}
    /\ \E m \in ScriptPlaces : \E llm \in {"text", "exception"} :
          /\ ~InSeq(NameInfo(Val(Text(m).poi).name).place_id,
                    LET ts == Val(SESSIONS["s1"]).trip_state
                    IN IF DayPos(ts, _current_day_index(ts)) = 0 THEN <<>>
                       ELSE Day(ts, _current_day_index(ts)).visits)
          /\ chat(Some("s1"), m, None, llm, Calls("exception"))
          /\ Bounded(SESSIONS')

ScriptConfirm ==
    /\ response.reply.kind = "preview"
    /\ chat(Some("s1"), "Yes", None, "exception", Calls("exception"))
    /\ Bounded(SESSIONS')

NextScript == ScriptOpen \/ ScriptAccept \/ ScriptAnswer \/ ScriptStay \/ ScriptPlace \/ ScriptConfirm

\* the client sends its next message as long as it has one
SpecScript == Init /\ [][NextScript]_vars /\ WF_vars(NextScript)

\* ---- SpecSessions: a client that names its session s1 (unknown to the server on its first
\* request, known afterwards) and clients that send no session id ----
SessionRequestIds == {None, Some("s1")}

SessionMessages == {"", "Yes", "1 day"}

\* uuid4 has an id left to hand out
FreshUuid == \E u \in Uuids : ~Known(SESSIONS, u)

SessionMessage ==
    \E session_id \in SessionRequestIds : \E m \in SessionMessages :
        /\ ~IsNone(session_id) \/ FreshUuid
        /\ chat(session_id, m, None, "exception", Calls("exception"))
        /\ Bounded(SESSIONS')

SessionSelectPlace ==
    \E session_id \in SessionRequestIds :
        /\ ~IsNone(session_id) \/ FreshUuid
        /\ chat(session_id, "", MapEvent("select_place", "Garden of Dreams", None), "exception", Calls("exception"))
        /\ Bounded(SESSIONS')

NextSessions == SessionMessage \/ SessionSelectPlace

SpecSessions == Init /\ [][NextSessions]_vars

\* ---- SpecRetrieve: SimpleRAG.retrieve, on any corpus of at most MaxDocs documents ----
MaxDocs == 3

MaxTopK == 3

\* two documents about the stupa, one of them with punctuation and an apostrophe, one about a
\* garden, one without a single token
DocPool ==
    {[title |-> "Stupa", place |-> "Boudha", text |-> "prayer wheels"],
     [title |-> "", place |-> "Boudha", text |-> "Don't miss the stupa; the stupa's dome"],
     [title |-> "Garden", place |-> "Thamel", text |-> "a quiet garden"],
     [title |-> "2024", place |-> "", text |-> "1905"]}

Queries == {"", "stupa", "Quiet GARDEN, stupa", "2024 momo"}

Corpora == UNION {[1..n -> DocPool] : n \in 0..MaxDocs}

InitRetrieve ==
    /\ SESSIONS = NoSessions
    /\ response = NoResponse
    /\ \E docs \in Corpora : lexicon = [Lexicon EXCEPT !.RAG = SimpleRAG(docs)]
    /\ pending = None

Retrieve ==
    \E query \in Queries : \E top_k \in 0..MaxTopK :
        /\ response' = [session_id |-> "", status |-> "returned",
                        reply |-> [kind |-> "retrieve", query |-> query, top_k |-> top_k,
                                   value |-> retrieve(lexicon.RAG, query, top_k)],
                        commands |-> <<>>, suggestions |-> <<>>]
        /\ UNCHANGED <<SESSIONS, lexicon, pending>>

NextRetrieve == Retrieve

SpecRetrieve == InitRetrieve /\ [][NextRetrieve]_vars

\* ---- SpecBudget: estimate_trip_budget, on any profile of a stay of at most MaxBudgetDays days ----
MaxBudgetDays == 5

\* what _parse_group and _parse_comfort can have stored, or nothing
BudgetGroups == {None, Some([label |-> "one", count |-> 1]), Some([label |-> "many", count |-> 4])}

BudgetComforts == {None, Some("budget"), Some("mid"), Some("comfortable")}

InitBudget ==
    /\ lexicon = Lexicon
    /\ pending = None
    /\ response = NoResponse
    /\ \E time_days \in 0..MaxBudgetDays : \E group \in BudgetGroups : \E comfort \in BudgetComforts :
          SESSIONS = [NoSessions EXCEPT !["s1"] =
                         Some([_default_session EXCEPT !.trip_state.trip_profile.time_days = time_days,
                                                       !.trip_state.trip_profile.group = group,
                                                       !.trip_state.trip_profile.comfort = comfort])]

EstimateTripBudget ==
    /\ Known(SESSIONS, "s1")
    /\ \E trip_state \in {Val(SESSIONS["s1"]).trip_state} :
          FnReturn(trip_state, [kind |-> "estimate_trip_budget", value |-> estimate_trip_budget(trip_state)])

NextBudget == EstimateTripBudget

SpecBudget == InitBudget /\ [][NextBudget]_vars

\* ---- SpecIsolation: two clients, each on its own session, and the export of either ----
IsolationIds == {"s1", "s2"}

IsolationRequests ==
    {<<"Yes", None>>,
     <<"", MapEvent("select_place", "Garden of Dreams", None)>>,
     <<"", MapEvent("set_hotel", "Boudhanath Stupa", None)>>}

IsolationTurn ==
    \E sid \in IsolationIds : \E request \in IsolationRequests :
        /\ chat(Some(sid), request[1], request[2], "exception", Calls("exception"))
        /\ Bounded(SESSIONS')

IsolationExport ==
    \E sid \in IsolationIds :
        /\ response' = [session_id |-> sid, status |-> "returned", reply |-> export_plan(SESSIONS, Some(sid)),
                        commands |-> <<>>, suggestions |-> <<>>]
        /\ UNCHANGED <<SESSIONS, lexicon, pending>>

NextIsolation == IsolationTurn \/ IsolationExport

SpecIsolation == Init /\ [][NextIsolation]_vars

(***************************************************************************)
(* One session whose create_route turn waits for the routing backend while *)
(* other turns of the same session run.  A turn runs without interruption  *)
(* up to a request to the routing backend; one build is followed at a time.*)
(***************************************************************************)
AwaitMessages == {"Yes", "save day"}

AwaitPlaces == {"Garden of Dreams", "My Cafe"}

AwaitKinds == {"path", "exception"}

\* the session is followed until MaxDays + 1 of its days are confirmed
BoundedAwait(sessions) ==
    \A sid \in DOMAIN sessions :
        IF Known(sessions, sid) THEN Val(sessions[sid]).trip_state.trip.current_day <= MaxDays + 2 ELSE TRUE

AwaitMessage ==
    \E m \in AwaitMessages :
        /\ chat(Some("s1"), m, None, "exception", Calls("exception"))
        /\ BoundedAwait(SESSIONS')

AwaitSelectPlace ==
    \E n \in AwaitPlaces :
        /\ chat(Some("s1"), "", MapEvent("select_place", n, None), "exception", Calls("exception"))
        /\ BoundedAwait(SESSIONS')

AwaitSetHotel ==
    /\ chat(Some("s1"), "", MapEvent("set_hotel", "", None), "exception", Calls("exception"))
    /\ BoundedAwait(SESSIONS')

AwaitCreateRoute ==
    /\ IsNone(pending)
    /\ chat(Some("s1"), "", MapEvent("create_route", "", None), "exception", <<"await">>)

BackendAnswers ==
    \E kind \in AwaitKinds : RouteResume(kind)

NextAwait == AwaitMessage \/ AwaitSelectPlace \/ AwaitSetHotel \/ AwaitCreateRoute \/ BackendAnswers

SpecAwait == Init /\ [][NextAwait]_vars

(***************************************************************************)
(* Properties                                                              *)
(***************************************************************************)
Started == Known(SESSIONS, "s1")

\* the trip state of the client's session
TS == Val(SESSIONS["s1"]).trip_state

Days(ts) == ts.trip.days

\* the visits of the current day, none while the day does not exist yet
CurrentVisits(ts) ==
    IF DayPos(ts, _current_day_index(ts)) = 0 THEN <<>> ELSE Day(ts, _current_day_index(ts)).visits

ConfirmedIndexes(ts) == {Days(ts)[i].dayIndex : i \in {j \in 1..Len(Days(ts)) : Days(ts)[j].confirmed}}

HasCommand(r, c, a) == \E k \in 1..Len(r.commands) : r.commands[k] = Cmd(c, a)

\* C1: in every reachable state, whatever text messages and select_place, set_hotel and
\* create_route events led to it, every day of every session holds at most two visits.
C1_AtMostTwoVisits ==
    \A sid \in DOMAIN SESSIONS :
        Known(SESSIONS, sid) =>
            \A i \in 1..Len(Days(Val(SESSIONS[sid]).trip_state)) :
                Len(Days(Val(SESSIONS[sid]).trip_state)[i].visits) <= 2

\* a third place was offered to a day that holds two, and was turned away
C1_ThirdPlaceRefused ==
    /\ Started
    /\ response.reply.kind = "day_full"
    /\ Len(CurrentVisits(TS)) = 2

\* C2: every chat turn returns a response; no turn ends in an unhandled error.
C2_EveryTurnResponds == response.status # "error"

\* C3: once a day is confirmed, no later turn changes its visits or resets its confirmed
\* flag: the day stays where it is in trip.days, as it was.
C3_ConfirmedDayFrozen ==
    [][Started =>
          \A i \in 1..Len(Days(TS)) :
              Days(TS)[i].confirmed => (i <= Len(Days(TS')) /\ Days(TS')[i] = Days(TS)[i])]_vars

\* a 'no' in day_confirm cleared the current day while an earlier day stood confirmed
C3_ClearedBesideConfirmed ==
    /\ Started
    /\ response.reply.kind = "day_cleared"
    /\ \E i \in 1..Len(Days(TS)) : Days(TS)[i].confirmed /\ Len(Days(TS)[i].visits) > 0

\* C4: done is terminal: once current_day exceeds time_days and the trip has a hotel and a
\* confirmed day, ui_stage is done after every later turn, whatever the input.
DoneCondition(ts) ==
    /\ ts.trip_profile.time_days > 0
    /\ ts.trip.current_day > ts.trip_profile.time_days
    /\ ~IsNone(ts.hotel)
    /\ ConfirmedIndexes(ts) # {}

C4_DoneIsTerminal == [][(Started /\ DoneCondition(TS)) => TS'.ui_stage = "done"]_vars

\* C5: the turn whose 'yes' confirms a day emits the final summary, enables route building
\* and leaves ui_stage done when the trip is thereby complete, and leaves ui_stage
\* day_suggest when days remain.
C5_ConfirmingTurn ==
    [][(Started /\ ConfirmedIndexes(TS') # ConfirmedIndexes(TS)) =>
          IF _is_trip_complete(TS')
          THEN /\ response'.status = "ok"
               /\ response'.reply.kind = "final_summary"
               /\ HasCommand(response', "ui.enableButton", "buildRoute")
               /\ TS'.ui_stage = "done"
          ELSE TS'.ui_stage = "day_suggest"]_vars

\* the client's turn is a yes-like message
YesTurn ==
    \E m \in CapMessages : lexicon.message[m].yes /\ chat(Some("s1"), m, None, "exception", Calls("exception"))

\* permission is granted, the stage is day_confirm and the current day holds one or two visits
ReadyToConfirm(ts) ==
    /\ ts.planning_permission = Some(TRUE)
    /\ ts.ui_stage = "day_confirm"
    /\ Len(CurrentVisits(ts)) \in {1, 2}

\* the day that was current in ts is confirmed in ts2, and current_day has moved on by one
ConfirmedAndAdvanced(ts, ts2) ==
    /\ DayPos(ts2, ts.trip.current_day) # 0
    /\ Day(ts2, ts.trip.current_day).confirmed
    /\ ts2.trip.current_day = ts.trip.current_day + 1

C7_FirstValueKept ==
    [][Started =>
          LET p == TS.trip_profile
              q == TS'.trip_profile
          IN /\ p.time_days # 0 => q.time_days = p.time_days
             /\ ~IsNone(p.group) => q.group = p.group
             /\ (~IsNone(p.budget) \/ ~IsNone(p.budget_unknown)) =>
                    (q.budget = p.budget /\ q.budget_unknown = p.budget_unknown)
             /\ ~IsNone(p.comfort) => q.comfort = p.comfort]_vars

\* C8: _is_trip_complete is true exactly when time_days is a positive integer and at least
\* time_days days are confirmed.
C8_CompleteIff ==
    (Started /\ response.reply.kind = "_is_trip_complete") =>
        (response.reply.value <=>
            /\ TS.trip_profile.time_days > 0
            /\ Cardinality({i \in 1..Len(Days(TS)) : Days(TS)[i].confirmed}) >= TS.trip_profile.time_days)

\* a two-day stay with both days confirmed was found complete
C8_TwoOfTwo ==
    /\ Started
    /\ response.reply.kind = "_is_trip_complete"
    /\ response.reply.value
    /\ TS.trip_profile.time_days = 2
    /\ Cardinality({i \in 1..Len(Days(TS)) : Days(TS)[i].confirmed}) = 2

\* C9: _confirm_day(n) marks day n confirmed and sets current_day to max(current_day, n + 1);
\* so no call lowers current_day, and confirming day n again leaves current_day as it is.
C9_ConfirmDay ==
    [][(Started /\ response'.reply.kind = "_confirm_day") =>
          LET n == response'.reply.day
              cd == TS.trip.current_day
          IN /\ \E i \in 1..Len(Days(TS')) : Days(TS')[i].dayIndex = n /\ Days(TS')[i].confirmed
             /\ TS'.trip.current_day = IF cd > n + 1 THEN cd ELSE n + 1
             /\ TS'.trip.current_day >= cd
             /\ _confirm_day(TS', n).trip.current_day = TS'.trip.current_day]_vars

\* a day was confirmed while current_day was already past it, and current_day stayed
C9_EarlierDayConfirmed ==
    /\ Started
    /\ response.reply.kind = "_confirm_day"
    /\ TS.trip.current_day > response.reply.day + 1
    /\ \E i \in 1..Len(Days(TS)) : Days(TS)[i].dayIndex = response.reply.day /\ Days(TS)[i].confirmed

\* the visits of day n, none while the day does not exist
VisitsOf(ts, n) == IF DayPos(ts, n) = 0 THEN <<>> ELSE Day(ts, n).visits

\* C10: _add_visit_to_day returns (False, already_added) for a place the day holds, else
\* (False, day_full) for a day of two visits, the visits unchanged in both cases; else it
\* appends the place and returns (True, added).
C10_AddVisit ==
    [][(Started /\ response'.reply.kind = "_add_visit_to_day") =>
          LET r == response'.reply
              before == VisitsOf(TS, r.day)
              after == VisitsOf(TS', r.day)
          IN IF \E j \in 1..Len(before) : before[j] = r.place_id
             THEN ~r.ok /\ r.reason = "already_added" /\ after = before
             ELSE IF Len(before) >= 2
             THEN ~r.ok /\ r.reason = "day_full" /\ after = before
             ELSE r.ok /\ r.reason = "added" /\ after = Append(before, r.place_id)]_vars

\* a place was offered again to a day of two visits that holds it
C10_RepeatOnFullDay ==
    /\ Started
    /\ response.reply.kind = "_add_visit_to_day"
    /\ response.reply.reason = "already_added"
    /\ Len(VisitsOf(TS, response.reply.day)) = 2

\* the profile fields _next_profile_field finds missing
MissingFields(ts) ==
    LET profile == ts.trip_profile
    IN (IF profile.time_days = 0 THEN {"time_days"} ELSE {})
       \cup (IF IsNone(profile.group) THEN {"group"} ELSE {})
       \cup (IF IsNone(profile.budget) /\ IsNone(profile.budget_unknown) THEN {"budget"} ELSE {})
       \cup (IF IsNone(profile.comfort) THEN {"comfort"} ELSE {})
       \cup (IF profile.preferences = {} THEN {"preferences"} ELSE {})

\* C11: while permission is granted and a profile field is unset and unasked (and the turn's
\* own message does not supply it), the turn replies with a profile question and does no
\* hotel or day logic: the hotel, the days and their confirmed flags stay as they were and
\* ui_stage does not become day_suggest or day_confirm.
C11_QuestionsFirst ==
    [][(/\ Started
        /\ TS.planning_permission = Some(TRUE)
        /\ \E f \in MissingFields(TS) \cap MissingFields(TS') : ~InSeq(f, TS.asked_profile_fields))
       => /\ response'.reply.kind = "question"
          /\ TS'.hotel = TS.hotel
          /\ TS'.trip = TS.trip
          /\ TS'.ui_stage \notin {"day_suggest", "day_confirm"}]_vars

\* C12: the field a turn asks about is the first of time_days, group, budget, comfort,
\* preferences that is unset and was not asked before the turn; the turn records it as asked
\* and asked_profile_fields only grows, so no field's question is emitted twice.
C12_AskedOnce ==
    [][LET asked == IF Started THEN TS.asked_profile_fields ELSE <<>>
           open == {i \in 1..Len(ProfileOrder) :
                       ProfileOrder[i] \in MissingFields(TS') /\ ~InSeq(ProfileOrder[i], asked)}
       IN /\ SubSeq(TS'.asked_profile_fields, 1, Len(asked)) = asked
          /\ response'.reply.kind = "question" =>
                /\ open # {}
                /\ response'.reply.field = ProfileOrder[Min(open)]
                /\ InSeq(response'.reply.field, TS'.asked_profile_fields)]_vars

\* all five fields were asked, the duration is still unknown, and the turn moved on to the stay
C12_AskedAndStillUnset ==
    /\ Started
    /\ Len(TS.asked_profile_fields) = 5
    /\ TS.trip_profile.time_days = 0
    /\ response.reply.kind = "ask_hotel"

\* the client's turn is message m, with no map event
MessageTurn(m) == \E llm \in {"text", "exception"} : chat(Some("s1"), m, None, llm, Calls("exception"))

\* planning_permission is unknown: the session is new or nobody answered the offer yet
PermissionUnknown == IF Started THEN IsNone(TS.planning_permission) ELSE TRUE

\* C13, as the claim states it: while planning_permission is unknown a yes-like message sets
\* permission granted and ui_stage collect_profile, and a no-like message sets permission
\* declined and ui_stage inspiration.
C13_AnswerSetsPermission ==
    [][\A m \in TurnMessages :
          (PermissionUnknown /\ MessageTurn(m)) =>
              /\ lexicon.message[m].yes =>
                    TS'.planning_permission = Some(TRUE) /\ TS'.ui_stage = "collect_profile"
              /\ lexicon.message[m].no =>
                    TS'.planning_permission = Some(FALSE) /\ TS'.ui_stage = "inspiration"]_vars

\* C13, amended: the yes-like test comes first, so a no-like message declines only when it is
\* not yes-like as well.
C13_YesBeforeNo ==
    [][\A m \in TurnMessages :
          (PermissionUnknown /\ MessageTurn(m)) =>
              /\ lexicon.message[m].yes =>
                    TS'.planning_permission = Some(TRUE) /\ TS'.ui_stage = "collect_profile"
              /\ (lexicon.message[m].no /\ ~lexicon.message[m].yes) =>
                    TS'.planning_permission = Some(FALSE) /\ TS'.ui_stage = "inspiration"
              /\ (~lexicon.message[m].no /\ ~lexicon.message[m].yes) => PermissionUnknown']_vars

\* the offer was declined: the session is in inspiration and the turn returned ideas
C13_Declined ==
    /\ Started
    /\ TS.planning_permission = Some(FALSE)
    /\ TS.ui_stage = "inspiration"
    /\ response.reply.kind = "ideas"

C15_CueSkipsTheTurn ==
    [][\A m \in SideMessages :
          LET t == lexicon.message[m]
              before == IF Started THEN TS ELSE _default_trip_state
          IN (/\ t.off_topic \/ t.too_broad \/ t.exact_prices \/ t.change_of_mind \/ t.outside
              /\ chat(Some("s1"), m, None, "exception", Calls("exception")))
             => /\ response'.reply.kind \in {"off_topic", "too_broad", "exact_prices", "changes_mind"}
                /\ TS'.trip_profile = before.trip_profile
                /\ TS'.asked_profile_fields = before.asked_profile_fields
                /\ TS'.hotel = before.hotel
                /\ TS'.trip = before.trip
                /\ TS'.ui_stage = before.ui_stage]_vars

\* C16: from any session state a select_place event for a known place leaves the same visits,
\* selected_places and ui_stage as a message naming the place, and a set_hotel event leaves
\* the same trip state as the equivalent stay-area message.
C16_MapAsTyped ==
    LET map == Val(SESSIONS["s1"]).trip_state
    IN /\ (response.session_id = "s2" /\ response.status = "ok") =>
             LET typed == Val(SESSIONS["s2"]).trip_state
             IN /\ map.trip.days = typed.trip.days
                /\ map.selected_places = typed.selected_places
                /\ map.ui_stage = typed.ui_stage
       /\ (response.session_id = "s3" /\ response.status = "ok") => map = Val(SESSIONS["s3"]).trip_state

\* C17: over any sequence of turns ui_stage changes only along the edges intro to inspiration
\* or collect_profile, inspiration to collect_profile, collect_profile to collect_hotel,
\* collect_hotel to day_suggest, day_suggest to and from day_confirm, day_confirm to done.
C17_StageGraph ==
    [][LET from == IF Started THEN TS.ui_stage ELSE "intro"
           to == TS'.ui_stage
       IN \/ from = to
          \/ <<from, to>> \in {<<"intro", "inspiration">>, <<"intro", "collect_profile">>,
                               <<"inspiration", "collect_profile">>, <<"collect_profile", "collect_hotel">>,
                               <<"collect_hotel", "day_suggest">>, <<"day_suggest", "day_confirm">>,
                               <<"day_confirm", "day_suggest">>, <<"day_confirm", "done">>}]_vars

\* the coordinates a leg label stands for: the stay, or the place of that name
LabelCoords(ts, label) ==
    IF label = "Hotel" THEN Val(ts.hotel).coordinates
    ELSE LET p == lexicon.PLACES[CHOOSE pid \in DOMAIN lexicon.PLACES : lexicon.PLACES[pid].name_en = label]
         IN <<p.lat, p.lng>>

\* C18: a routing-backend failure on one leg (exception or empty result) replaces only that
\* leg's polyline with its two endpoints and never aborts the build: the legs are the same in
\* number, order, day tags and labels as when every call succeeds, a leg whose call succeeded
\* keeps the backend's path, and when every call fails every polyline is its two endpoints.
C18_FailureDegradesOneLeg ==
    [][response'.reply.kind = "_build_routes_for_confirmed_days" =>
          \A calls \in {response'.reply.calls} : \A got \in {TS'.routes} :
          \A ideal \in {_build_routes_for_confirmed_days(TS, [k \in 1..Len(calls) |-> "path"])} :
             /\ Len(got) = Len(ideal)
             /\ Len(got) = Len(calls)
             /\ \A k \in 1..Len(got) :
                   /\ got[k].day = ideal[k].day
                   /\ got[k].from = ideal[k].from
                   /\ got[k].to = ideal[k].to
                   /\ calls[k] \in {"exception", "no_route"} =>
                         got[k].polyline = <<LabelCoords(TS, got[k].from), LabelCoords(TS, got[k].to)>>
                   /\ calls[k] = "path" => got[k].polyline = ideal[k].polyline /\ Len(got[k].polyline) = 3]_vars

\* a build of at least three legs in which the first call raised, the second found no route
\* and the third succeeded
C18_MixedBuild ==
    /\ response.reply.kind = "_build_routes_for_confirmed_days"
    /\ Len(TS.routes) >= 3
    /\ response.reply.calls[1] = "exception"
    /\ response.reply.calls[2] = "no_route"
    /\ response.reply.calls[3] = "path"
    /\ Len(TS.routes[1].polyline) = 2
    /\ Len(TS.routes[3].polyline) = 3

\* C19: every route leg stored in trip_state.routes has a polyline of at least 2 points,
\* whatever the routing backend returned.
C19_AtLeastTwoPoints ==
    Started => \A k \in 1..Len(TS.routes) : Len(TS.routes[k].polyline) >= 2

\* C20: for an existing session export returns exactly one link per confirmed day and none
\* for an unconfirmed day, each from the hotel to the day's last visit with the visits in
\* between in order, and the session is left as it was.
C20_OneLinkPerConfirmedDay ==
    [][(response'.reply.kind = "export_plan" /\ response'.session_id = "s1") =>
          \A links \in {response'.reply.links} :
          \A confirmed \in {SelectSeq(Days(TS), LAMBDA d : d.confirmed)} :
             /\ response'.reply.ok
             /\ SESSIONS' = SESSIONS
             /\ Len(links) = Len(confirmed)
             /\ \A k \in 1..Len(links) :
                   LET d == confirmed[k]
                       Coords(pid) == <<Val(Place(pid)).lat, Val(Place(pid)).lng>>
                   IN /\ links[k].day = d.dayIndex
                      /\ links[k].url.origin = Val(TS.hotel).coordinates
                      /\ \A j \in 1..Len(d.visits) : ~IsNone(Place(d.visits[j]))
                      /\ links[k].url.destination = Coords(d.visits[Len(d.visits)])
                      /\ links[k].url.waypoints = [j \in 1..(Len(d.visits) - 1) |-> Coords(d.visits[j])]]_vars

\* C21: while permission is granted, every stay-area phrase sets the hotel: to the coordinates
\* of the place of that name, to the aliased place for an ambiguous area name, or to the city
\* centre when the area is not resolvable; and a set_hotel map event sets the hotel.
C21_StayPhraseSetsHotel ==
    [][(Started /\ TS.planning_permission = Some(TRUE)) =>
          /\ \A m \in StayMessages :
                (~IsNone(lexicon.message[m].stay_area) /\ MessageTurn(m)) =>
                    /\ ~IsNone(TS'.hotel)
                    /\ Val(TS'.hotel).coordinates =
                          IF IsNone(lexicon.message[m].stay_poi) THEN KATHMANDU_CENTER
                          ELSE Val(lexicon.message[m].stay_poi).coordinates
          /\ chat(Some("s1"), "", MapEvent("set_hotel", "", None), "exception", Calls("exception")) =>
                TS'.hotel = Some([name |-> "Stay", coordinates |-> KATHMANDU_CENTER])]_vars

\* the days of ts other than the one with index n
OtherDays(ts, n) == SelectSeq(Days(ts), LAMBDA d : d.dayIndex # n)

C23_ScriptReachesDone ==
    <>(/\ Started
       /\ response.status = "ok"
       /\ TS.ui_stage = "done"
       /\ HasCommand(response, "ui.enableButton", "buildRoute")
       /\ ConfirmedCount(TS) = TS.trip_profile.time_days)

\* every one of the time_days days of the trip is confirmed
AllDaysConfirmed(ts) ==
    /\ ts.trip_profile.time_days > 0
    /\ \A n \in 1..ts.trip_profile.time_days : DayPos(ts, n) # 0 /\ Day(ts, n).confirmed

\* C24: after all time_days days of a trip have been confirmed, no later turn plans a further
\* day: no visit is added to a day with dayIndex greater than time_days, no such day is
\* confirmed, and no reply asks the user to pick places for day time_days + 1.
C24_NoDayBeyondTheStay ==
    [][(Started /\ AllDaysConfirmed(TS)) =>
          LET td == TS.trip_profile.time_days
              r == response'.reply
          IN /\ \A i \in 1..Len(Days(TS')) :
                   Days(TS')[i].dayIndex > td =>
                       /\ Days(TS')[i].visits = VisitsOf(TS, Days(TS')[i].dayIndex)
                       /\ ~Days(TS')[i].confirmed
             /\ ~(r.kind \in {"pick_places", "second_place", "added", "day_cleared"} /\ r.day > td)
             /\ ~(r.kind = "day_saved" /\ r.next > td)]_vars

\* C25: the profile extractors are applied to every non-empty message of a turn that starts
\* with planning permission granted, and to no other message: a turn that starts with the
\* permission unknown or declined, or without a message, leaves trip_profile unchanged.
C25_ExtractorsNeedPermission ==
    [][\A before \in {IF Started THEN TS ELSE _default_trip_state} :
          /\ \A m \in ProfileMessages :
                MessageTurn(m) =>
                    TS'.trip_profile =
                        IF before.planning_permission = Some(TRUE)
                        THEN _update_trip_profile_from_message(before, m).trip_profile
                        ELSE before.trip_profile
          /\ chat(Some("s1"), "", None, "exception", Calls("exception")) =>
                TS'.trip_profile = before.trip_profile]_vars

\* nobody has accepted the offer, a message with profile data was sent (it got the vague
\* reply), and the profile is still empty
C25_IgnoredWithoutPermission ==
    /\ Started
    /\ IsNone(TS.planning_permission)
    /\ response.reply.kind = "vague"
    /\ TS.trip_profile = _default_trip_state.trip_profile

\* C26: the generation backend's outcome (text, short or empty text, exception, timeout)
\* influences only the reply text: a turn that consults the backend completes, with the
\* backend's text or with the deterministic fallback line, and for every other outcome of
\* the backend the same turn ends with the same trip state, commands and suggestions.
C26_BackendOnlyWords ==
    [][response'.reply.kind \in {"llm", "pick_places", "vague"} =>
          \A sessions \in {SESSIONS'} : \A r \in {response'} :
             /\ r.status = "ok"
             /\ \A m \in StayMessages :
                   chat(Some("s1"), m, None, IF r.reply.kind = "llm" THEN "text" ELSE "exception",
                        Calls("exception")) =>
                      \A other \in LlmOutcomes \ {IF r.reply.kind = "llm" THEN "text" ELSE "exception"} :
                         ENABLED (/\ chat(Some("s1"), m, None, other, Calls("exception"))
                                  /\ SESSIONS' = sessions
                                  /\ response'.status = "ok"
                                  /\ response'.commands = r.commands
                                  /\ response'.suggestions = r.suggestions
                                  /\ response'.reply.kind = IF other = "text" THEN "llm"
                                                            ELSE IF IsNone(TS'.planning_permission) THEN "vague"
                                                            ELSE "pick_places")]_vars

\* the backend answered: its text is the reply of a turn that offers three places for the day
C26_BackendAnswered ==
    /\ Started
    /\ response.status = "ok"
    /\ response.reply.kind = "llm"
    /\ TS.ui_stage = "day_suggest"
    /\ Len(response.suggestions) = 3

\* C27: whenever a turn (a typed place name or a select_place event) leaves the current day
\* with two visits, having added the second, that turn sets ui_stage day_confirm and returns
\* the day preview with the suggestions 'Yes' and 'No'.
C27_SecondVisitAsksToConfirm ==
    [][\A before \in {IF Started THEN TS ELSE _default_trip_state} :
          (/\ Len(VisitsOf(before, before.trip.current_day)) < 2
           /\ Len(VisitsOf(TS', before.trip.current_day)) = 2)
          => /\ TS'.ui_stage = "day_confirm"
             /\ response'.reply.kind = "preview"
             /\ response'.reply.day = before.trip.current_day
             /\ ~IsNone(response'.reply.preview)
             /\ response'.suggestions = <<"Yes", "No">>]_vars

\* C28: a chat turn carrying no session id or an unknown session id never fails: it creates
\* a new session (under the id given, if one was given) whose trip state is the default
\* state, and processes the turn on it; a turn carrying a known session id is processed on
\* the session stored under that id.  No other session is touched.
C28_SessionResolution ==
    [][\A session_id \in SessionRequestIds :
       \A request \in (SessionMessages \X {None}) \cup {<<"", MapEvent("select_place", "Garden of Dreams", None)>>} :
          (~IsNone(session_id) \/ FreshUuid)
          /\ chat(session_id, request[1], request[2], "exception", Calls("exception")) =>
             \A sid \in {response'.session_id} :
                /\ \A x \in DOMAIN SESSIONS : x # sid => SESSIONS'[x] = SESSIONS[x]
                /\ IF ~IsNone(session_id) /\ Known(SESSIONS, Val(session_id))
                   THEN /\ sid = Val(session_id)
                        /\ ChatTurn([sid |-> sid, sessions |-> SESSIONS], Val(SESSIONS[sid]).trip_state,
                                    request[1], request[2], "exception", Calls("exception"))
                   ELSE /\ ~Known(SESSIONS, sid)
                        /\ ~IsNone(session_id) => sid = Val(session_id)
                        /\ response'.status = "ok"
                        /\ ChatTurn([sid |-> sid, sessions |-> [SESSIONS EXCEPT ![sid] = Some(_default_session)]],
                                    [hotel |-> None, selected_places |-> <<>>, routes |-> <<>>, ui_stage |-> "intro",
                                     planning_permission |-> None, trip |-> [days |-> <<>>, current_day |-> 1],
                                     trip_profile |-> [time_days |-> 0, group |-> None, budget |-> None,
                                                       budget_unknown |-> None, comfort |-> None, preferences |-> {}],
                                     asked_profile_fields |-> <<>>],
                                    request[1], request[2], "exception", Calls("exception"))]_vars

\* a client without an id was given a session of its own, and the client of s1, two questions
\* into its conversation, was answered on its stored session
C28_TwoClients ==
    /\ Known(SESSIONS, "uuid-1")
    /\ Val(SESSIONS["uuid-1"]).trip_state.ui_stage = "intro"
    /\ Known(SESSIONS, "s1")
    /\ Len(Val(SESSIONS["s1"]).trip_state.asked_profile_fields) = 2
    /\ response.session_id = "s1"

\* the answers that are a bare number: digits only
BareNumbers == {m \in ProfileMessages : m # "" /\ \A i \in 1..Len(m) : IsDigit(Char(m, i))}

\* C29: with permission granted, answering the days question with a bare number N sets
\* time_days to N.
C29_BareNumberSetsDays ==
    [][\A m \in BareNumbers :
          (/\ Started
           /\ TS.planning_permission = Some(TRUE)
           /\ response.reply.kind = "question"
           /\ response.reply.field = "time_days"
           /\ MessageTurn(m)) =>
              TS'.trip_profile.time_days = ParseInt(m)]_vars

\* the tokens of a document, read from its three fields
DocTokens(d) ==
    LET t == Tokens(d.title) \o Tokens(d.place) \o Tokens(d.text) IN {t[i] : i \in 1..Len(t)}

QueryTokens(query) == LET t == Tokens(query) IN {t[i] : i \in 1..Len(t)}

\* the documents of the corpus that share a token with the query
Sharing(query) ==
    {i \in 1..Len(lexicon.RAG._docs) : DocTokens(lexicon.RAG._docs[i]) \cap QueryTokens(query) # {}}

Score(query, i) == _cosine_similarity(Counter(Tokens(query)), lexicon.RAG._doc_vecs[i])

\* C30: retrieve(query, k) returns at most k documents, each sharing a token with the query
\* (strictly positive similarity), by non-increasing score with ties in corpus order, and as
\* many as k and the corpus allow; nothing for a query that shares no token with any document.
C30_RetrieveContract ==
    response.reply.kind = "retrieve" =>
        LET out == response.reply.value
            query == response.reply.query
        IN /\ Len(out) = Min({response.reply.top_k, Cardinality(Sharing(query))})
           /\ \A i \in 1..Len(out) : out[i] \in Sharing(query) /\ Positive(Score(query, out[i]))
           /\ \A i \in 1..Len(out) : \A j \in 1..Len(out) :
                 i < j => /\ AtLeast(Score(query, out[i]), Score(query, out[j]))
                          /\ AtLeast(Score(query, out[j]), Score(query, out[i])) => out[i] < out[j]
           /\ \A i \in Sharing(query) : \A j \in 1..Len(out) :
                 i \notin {out[x] : x \in 1..Len(out)} => AtLeast(Score(query, out[j]), Score(query, i))
           /\ Sharing(query) = {} => out = <<>>

\* the third document of the corpus beats the first two, which tie: the first of them is
\* returned behind it and the second is cut off by k = 2
C30_TieCutOff ==
    /\ response.reply.kind = "retrieve"
    /\ Len(lexicon.RAG._docs) = 3
    /\ response.reply.top_k = 2
    /\ response.reply.value = <<3, 1>>
    /\ 2 \in Sharing(response.reply.query)
    /\ AtLeast(Score(response.reply.query, 2), Score(response.reply.query, 1))
    /\ ~AtLeast(Score(response.reply.query, 1), Score(response.reply.query, 3))

\* the per-day rates (stay, food, transport) of a comfort tier, mid when none is stored
TierRates(comfort) ==
    IF comfort = Some("budget") THEN <<800, 800, 300>>
    ELSE IF comfort = Some("comfortable") THEN <<2500, 2000, 800>>
    ELSE <<1500, 1200, 500>>

\* the range around an amount: 0.8 and 1.3 times the amount, rounded down
RangeOf(amount) == [low |-> Grouped((4 * amount) \div 5), high |-> Grouped(amount + (3 * amount) \div 10)]

\* C31: estimate_trip_budget gives each trip total as the per-day rate of the comfort tier
\* times the stay days (entry fees 500 per day), as the range from 0.8 to 1.3 times the amount;
\* for comfort mid and one day the total is 2,960 to 4,810; the group size changes no amount.
C31_BudgetBreakdown ==
    (response.reply.kind = "estimate_trip_budget" /\ response.reply.value.status = "ok") =>
        LET v == response.reply.value
            p == TS.trip_profile
            r == TierRates(p.comfort)
            n == p.time_days
        IN /\ v.stay = RangeOf(r[1] * n)
           /\ v.food = RangeOf(r[2] * n)
           /\ v.transport = RangeOf(r[3] * n)
           /\ v.entry_fees = RangeOf(500 * n)
           /\ v.total = RangeOf((r[1] + r[2] + r[3] + 500) * n)
           /\ v.days = n
           /\ (p.comfort = Some("mid") /\ n = 1) => v.total = [low |-> "2,960", high |-> "4,810"]

\* a group of four staying one day in the mid tier was given the total 2,960 to 4,810
C31_MidOneDayGroup ==
    /\ response.reply.kind = "estimate_trip_budget"
    /\ response.reply.value.status = "ok"
    /\ TS.trip_profile.comfort = Some("mid")
    /\ TS.trip_profile.time_days = 1
    /\ response.reply.value.group_size = 4
    /\ response.reply.value.total.low = "2,960"

\* C32: the profile never holds both a numeric budget and budget_unknown = true: the budget is
\* numeric with budget_unknown false, or budget_unknown is true with no budget, or both are unset.
C32_BudgetXorUnknown ==
    Started =>
        \/ ~IsNone(TS.trip_profile.budget) /\ TS.trip_profile.budget_unknown = Some(FALSE)
        \/ IsNone(TS.trip_profile.budget) /\ TS.trip_profile.budget_unknown = Some(TRUE)
        \/ IsNone(TS.trip_profile.budget) /\ IsNone(TS.trip_profile.budget_unknown)

\* a budget was given and the conversation went on past the budget question
C32_BudgetGiven ==
    /\ Started
    /\ ~IsNone(TS.trip_profile.budget)
    /\ TS.trip_profile.budget_unknown = Some(FALSE)
    /\ InSeq("comfort", TS.asked_profile_fields)

\* C33: for every trip state the conversation reaches with a complete trip,
\* estimate_trip_budget returns a breakdown (it does not raise), with the mid-tier rates when
\* no comfort is stored and group size 1 when the group was never answered.
C33_EstimateNeverRaises ==
    (Started /\ _is_trip_complete(TS)) =>
        \A v \in {estimate_trip_budget(TS)} :
           /\ v.status = "ok"
           /\ IsNone(TS.trip_profile.comfort) => v.total = RangeOf(3700 * TS.trip_profile.time_days)
           /\ IsNone(TS.trip_profile.group) => v.group_size = 1

\* C34: the entries of trip.days have the dayIndex values 1..len(days), each once and in
\* increasing order.
C34_DayIndexesContiguous ==
    Started => \A i \in 1..Len(Days(TS)) : Days(TS)[i].dayIndex = i

\* day 1 was created on demand when planning began, and day 2 ahead of time once the stay of
\* two days was known
C34_DayAddedAhead ==
    /\ Started
    /\ TS.trip_profile.time_days = 2
    /\ Len(Days(TS)) = 2

\* the legs of the routes that are tagged with a day, in order
LegsOfDay(routes, day_index) == SelectSeq(routes, LAMBDA leg : leg.day = day_index)

\* the name a visit has on a leg
VisitName(pid) == IF IsNone(Place(pid)) THEN pid ELSE Val(Place(pid)).name_en

\* C35: a route build replaces trip_state.routes with legs for the confirmed days only, in
\* day-list order; a confirmed day's legs are Hotel to its first visit and its first visit to
\* its second visit, tagged with the day's index; an unconfirmed day has no leg.
C35_LegsOfConfirmedDays ==
    (Started /\ response.reply.kind = "_build_routes_for_confirmed_days") =>
        \A routes \in {TS.routes} :
           /\ \A k \in 1..Len(routes) : \E i \in 1..Len(Days(TS)) :
                 Days(TS)[i].confirmed /\ Days(TS)[i].dayIndex = routes[k].day
           /\ \A k \in 1..(Len(routes) - 1) : DayPos(TS, routes[k].day) <= DayPos(TS, routes[k + 1].day)
           /\ \A i \in 1..Len(Days(TS)) :
                 \A d \in {Days(TS)[i]} : \A legs \in {LegsOfDay(routes, d.dayIndex)} :
                    IF ~d.confirmed THEN legs = <<>>
                    ELSE /\ Len(legs) = Min({Len(d.visits), 2})
                         /\ \A j \in 1..Len(legs) :
                               /\ legs[j].from = (IF j = 1 THEN "Hotel" ELSE legs[j - 1].to)
                               /\ legs[j].to = VisitName(d.visits[j])

\* C36: current_day is 1 plus the number of confirmed days, and the confirmed days are exactly
\* the days with dayIndex below current_day.
C36_CurrentDayFollowsConfirmed ==
    Started =>
        /\ TS.trip.current_day = 1 + ConfirmedCount(TS)
        /\ \A i \in 1..Len(Days(TS)) : Days(TS)[i].confirmed <=> Days(TS)[i].dayIndex < TS.trip.current_day

\* day 1 is confirmed and the traveller is adding visits to day 2
C36_SecondDayUnderWay ==
    /\ Started
    /\ ConfirmedCount(TS) = 1
    /\ TS.trip.current_day = 2
    /\ Len(Days(TS)) = 2
    /\ Days(TS)[2].visits # <<>>

\* a trip whose confirmed days can be routed
ConfirmedDaysBuildable(ts) ==
    /\ \A i \in 1..Len(Days(ts)) : Days(ts)[i].confirmed => Len(Days(ts)[i].visits) \in {1, 2}
    /\ ConfirmedCount(ts) > 0 => ts.planning_permission = Some(TRUE) /\ ~IsNone(ts.hotel)
    /\ _has_buildable_trip(ts) <=> ConfirmedCount(ts) > 0

\* C37: after every turn each confirmed day has 1 or 2 visits, and if a day is confirmed then
\* planning permission is granted and a hotel is set, so that _has_buildable_trip holds exactly
\* when a day is confirmed; a hotel that is set is never unset.
C37_ConfirmedDaysAreBuildable ==
    [][/\ ConfirmedDaysBuildable(TS')
       /\ (Started /\ ~IsNone(TS.hotel)) => ~IsNone(TS'.hotel)]_vars

\* a day with two visits is confirmed
C37_TwoVisitDayConfirmed ==
    /\ Started
    /\ \E i \in 1..Len(Days(TS)) : Days(TS)[i].confirmed /\ Len(Days(TS)[i].visits) = 2
    /\ _has_buildable_trip(TS)

\* the asked fields of a session, none before the session exists
AskedFields(sessions) ==
    IF Known(sessions, "s1") THEN Val(sessions["s1"]).trip_state.asked_profile_fields ELSE <<>>

\* C38: a field name is added to asked_profile_fields only in a turn whose reply is that
\* field's question; asked_profile_fields only grows, holds no duplicates and only the five
\* profile field names.
C38_AskedOnlyWhenAsked ==
    [][\A old \in {AskedFields(SESSIONS)} : \A new \in {AskedFields(SESSIONS')} :
          /\ Len(new) >= Len(old) /\ SubSeq(new, 1, Len(old)) = old
          /\ \A i \in 1..Len(new) : \A j \in 1..Len(new) : new[i] = new[j] => i = j
          /\ \A i \in 1..Len(new) : InSeq(new[i], ProfileOrder)
          /\ \A i \in (Len(old) + 1)..Len(new) :
                response'.reply.kind = "question" /\ response'.reply.field = new[i]]_vars

\* SESSIONS without every session but one
Alone(sessions, a) == [NoSessions EXCEPT ![a] = sessions[a]]

\* C39: sessions are isolated: a chat turn or an export for a session changes the trip state
\* of no other session, and what it does to its own session, a newly created one included,
\* and what it returns are what it would do and return if no other session existed.
C39_SessionsIsolated ==
    [][\A a \in {response'.session_id} :
          /\ \A b \in DOMAIN SESSIONS : b # a => SESSIONS'[b] = SESSIONS[b]
          /\ response'.status = "returned" =>
                SESSIONS' = SESSIONS /\ response'.reply = export_plan(Alone(SESSIONS, a), Some(a))
          /\ response'.status # "returned" =>
                \A request \in IsolationRequests :
                   chat(Some(a), request[1], request[2], "exception", Calls("exception")) =>
                      \A e \in {_ensure_session(Alone(SESSIONS, a), Some(a))} :
                      \A mine \in {SESSIONS'[a]} : \A r \in {response'} :
                         ENABLED (/\ ChatTurn(e, Val(e.sessions[a]).trip_state, request[1], request[2],
                                              "exception", Calls("exception"))
                                  /\ SESSIONS'[a] = mine
                                  /\ response' = r)]_vars

\* the session s2 was created, and a place added to it, while s1 already had its hotel
C39_SecondClient ==
    /\ Known(SESSIONS, "s1")
    /\ Known(SESSIONS, "s2")
    /\ ~IsNone(Val(SESSIONS["s1"]).trip_state.hotel)
    /\ IsNone(Val(SESSIONS["s2"]).trip_state.hotel)
    /\ Val(SESSIONS["s2"]).trip_state.selected_places # <<>>
    /\ response.session_id = "s2"

\* the confirmed days of a trip that have a visit the build can place, as day indexes
RoutableDays(ts) ==
    {Days(ts)[i].dayIndex : i \in {j \in 1..Len(Days(ts)) :
        /\ Days(ts)[j].confirmed
        /\ \E k \in 1..Min({Len(Days(ts)[j].visits), 2}) : ~IsNone(Place(Days(ts)[j].visits[k]))}}

\* C40: when the turns of a session interleave only where a create_route turn waits for the
\* routing backend, no day ever has more than 2 visits and a confirmed day never changes, and
\* when the waiting turn completes trip_state.routes holds legs for exactly the days that are
\* confirmed with a resolvable visit at that moment, each day's legs running from the hotel
\* through its resolvable visits, days confirmed during the wait included.
C40_AwaitedBuildSeesLiveDays ==
    [][/\ Started' => \A i \in 1..Len(Days(TS')) : Len(Days(TS')[i].visits) <= 2
       /\ Started => \A i \in 1..Len(Days(TS)) :
             Days(TS)[i].confirmed => Len(Days(TS')) >= i /\ Days(TS')[i] = Days(TS)[i]
       /\ (~IsNone(pending) /\ IsNone(pending')) =>
             \A routes \in {TS'.routes} :
                /\ {routes[k].day : k \in 1..Len(routes)} = RoutableDays(TS')
                /\ \A i \in 1..Len(Days(TS')) :
                      \A d \in {Days(TS')[i]} : \A legs \in {LegsOfDay(routes, d.dayIndex)} :
                      \A names \in {DayPoints(Val(TS'.hotel).coordinates, d).names} :
                         d.confirmed =>
                            /\ Len(legs) = Len(names) - 1
                            /\ \A j \in 1..Len(legs) : legs[j].from = names[j] /\ legs[j].to = names[j + 1]]_vars

\* a build that arrived when one day was confirmed has the first day's legs and waits for
\* the last leg of the second day, which another turn confirmed while the build waited
C40_DayConfirmedDuringWait ==
    /\ Started
    /\ ~IsNone(pending)
    /\ Val(pending).began = 1
    /\ Val(pending).day = 2
    /\ Val(pending).leg = Len(Val(pending).coords) - 1
    /\ LegsOfDay(Val(pending).routes, 1) # <<>>
    /\ Days(TS)[2].confirmed

====
